---- MODULE Spec2Model ----
(***************************************************************************)
(* Model of the PDF import service (PDFImportService_Enhanced.js): the     *)
(* interval-driven scan cycle, the per-file retry loop, the archive        *)
(* transaction with its compensating delete, the workflow trigger and the  *)
(* file mover.  File names and contents are sequences of one-character     *)
(* strings so that the string operations of the script are computed.       *)
(***************************************************************************)
EXTENDS Naturals, Integers, Sequences, FiniteSets, TLC

(* ------------------------------------------------------------------ *)
(* Bounds of the model                                                 *)
(* ------------------------------------------------------------------ *)
\* Spec: files the environment drops, scan cycles, and failures (of an archive
\* call, a file operation or a sleep) in a run
MaxFiles == 2
MaxCycles == 2
MaxFaults == 4
\* SpecNoFaults: files and scan cycles in a run without failures
MoreFiles == 3
MoreCycles == 3
\* SpecLongRun: files, scan cycles and failures in a run of a service that has
\* been running for a while
LongFiles == 2
LongCycles == 3
LongFaults == 2
\* SpecBasic: files, scan cycles and failures in a run of the basic script
BasicFiles == 2
BasicCycles == 2
BasicFaults == 2
\* the bounds of the runs in which every call returns
ReturnFiles == 2
ReturnCycles == 2
ReturnFaults == 3
\* new Date().getTime() returns a value in 1..MaxClock; the wall clock is not
\* monotonic, so a later move may read the value of an earlier one
MaxClock == 2

(* ------------------------------------------------------------------ *)
(* JavaScript string operations on sequences of characters             *)
(* ------------------------------------------------------------------ *)
Upper == <<"A","B","C","D","E","F","G","H","I","J","K","L","M",
           "N","O","P","Q","R","S","T","U","V","W","X","Y","Z">>
Lower == <<"a","b","c","d","e","f","g","h","i","j","k","l","m",
           "n","o","p","q","r","s","t","u","v","w","x","y","z">>

LowerChar(c) ==
    IF \E k \in 1..26 : Upper[k] = c
    THEN Lower[CHOOSE k \in 1..26 : Upper[k] = c]
    ELSE c

toLowerCase(s) == [k \in 1..Len(s) |-> LowerChar(s[k])]

startsWith(s, p) == Len(p) <= Len(s) /\ SubSeq(s, 1, Len(p)) = p

endsWith(s, p) == Len(p) <= Len(s) /\ SubSeq(s, Len(s) - Len(p) + 1, Len(s)) = p

\* s.indexOf(p) !== -1
contains(s, p) ==
    \E k \in 1..(Len(s) + 1) :
        k + Len(p) - 1 <= Len(s) /\ SubSeq(s, k, k + Len(p) - 1) = p

\* s.lastIndexOf(c): 0-based index of the last occurrence, -1 when absent
lastIndexOf(s, c) ==
    IF \E k \in 1..Len(s) : s[k] = c
    THEN (CHOOSE k \in 1..Len(s) : s[k] = c /\ \A j \in (k+1)..Len(s) : s[j] # c) - 1
    ELSE -1

Clamp(n, len) == IF n < 0 THEN 0 ELSE IF n > len THEN len ELSE n

\* s.substring(from, to) with 0-based indices, negative arguments read as 0
substring(s, from, to) ==
    LET a == Clamp(from, Len(s))
        b == Clamp(to, Len(s))
        lo == IF a <= b THEN a ELSE b
        hi == IF a <= b THEN b ELSE a
    IN SubSeq(s, lo + 1, hi)

\* s.substring(from)
substringFrom(s, from) == substring(s, from, Len(s))

DigitChars == <<"0","1","2","3","4","5","6","7","8","9">>

RECURSIVE numberToString(_)
\* "" + n for a non-negative integer n
numberToString(n) ==
    IF n < 10 THEN <<DigitChars[n + 1]>>
    ELSE numberToString(n \div 10) \o <<DigitChars[(n % 10) + 1]>>

(* ------------------------------------------------------------------ *)
(* Configuration (built-in defaults)                                   *)
(* ------------------------------------------------------------------ *)
RETRY_ATTEMPTS == 3
MAX_FILE_SIZE == 50 * 1024 * 1024
ALLOWED_EXTENSIONS == << <<".","p","d","f">> >>
EXCLUDE_PATTERNS == << <<"t","e","m","p","_","*">>, <<".","*">> >>
\* archive path: a one-character path marker followed by the folder name
ARCHIVE_PATH == <<"^","E">>
maxAttempts == 2
PdfMagic == <<"%","P","D","F">>

(* ------------------------------------------------------------------ *)
(* Files                                                               *)
(* ------------------------------------------------------------------ *)
\* head: the first min(size, 5) bytes of the content
MkFile(name, isFile, canRead, size, head) ==
    [name |-> name, isFile |-> isFile, canRead |-> canRead, size |-> size, head |-> head]

\* placeholder for "no file"
NoFile == MkFile(<<>>, FALSE, FALSE, 0, <<>>)

\* the identity of a file: what was dropped and which drop of it
FileId(f, n) == [file |-> f, serial |-> n]

NoId == FileId(NoFile, 0)

IdOf(e) == FileId(e.file, e.serial)

PdfHead == <<"%","P","D","F","-">>
TxtHead == <<"H","E","L","L","O">>

InvoiceName == <<"a",".","p","d","f">>

\* the files the environment may drop into the source directory
FileCatalog ==
    { MkFile(InvoiceName, TRUE, TRUE, 10240, PdfHead),                 \* a valid invoice
      MkFile(<<"b",".","p","d","f">>, TRUE, TRUE, 10240, TxtHead),     \* not a PDF inside
      MkFile(<<"n",".","t","x","t">>, TRUE, TRUE, 5, TxtHead),         \* wrong extension
      MkFile(<<"e",".","p","d","f">>, TRUE, TRUE, 0, <<>>),            \* empty
      MkFile(<<"g",".","p","d","f">>, TRUE, TRUE, MAX_FILE_SIZE + 1, PdfHead), \* too large
      MkFile(<<"t","e","m","p","_","x",".","p","d","f">>, TRUE, TRUE, 10240, PdfHead),
      MkFile(<<".","h",".","p","d","f">>, TRUE, TRUE, 10240, PdfHead), \* excluded names
      MkFile(<<"d",".","p","d","f">>, FALSE, TRUE, 10240, PdfHead),    \* a directory
      MkFile(<<"u",".","p","d","f">>, TRUE, FALSE, 10240, PdfHead) }   \* unreadable

(* ------------------------------------------------------------------ *)
(* validatePDFFile                                                     *)
(* ------------------------------------------------------------------ *)
\* lines 338-341: the file exists and can be read
readableCheck(f, exists) == exists /\ f.canRead

\* a size check that rejects the file of exactly the maximal size
sizeCheckBelowLimit(f) == ~(f.size = 0) /\ ~(f.size >= MAX_FILE_SIZE)

\* a size check without the upper limit
sizeCheckNoLimit(f) == ~(f.size = 0)

\* lines 344-353: not empty and not larger than MAX_FILE_SIZE
sizeCheck(f) == ~(f.size = 0) /\ ~(f.size > MAX_FILE_SIZE)

\* lines 356-368: the lower-cased name ends with an allowed extension
extensionCheck(f) ==
    \E k \in 1..Len(ALLOWED_EXTENSIONS) :
        endsWith(toLowerCase(f.name), toLowerCase(ALLOWED_EXTENSIONS[k]))

\* lines 371-385: TRUE when pattern excludes the (lower-cased) file name
patternExcludes(fileName, pattern) ==
    \/ (startsWith(pattern, <<"*">>) /\ endsWith(fileName, substringFrom(pattern, 1)))
    \/ (endsWith(pattern, <<"*">>) /\ startsWith(fileName, substring(pattern, 0, Len(pattern) - 1)))
    \/ contains(fileName, pattern)

\* lines 371-385: TRUE when one of the patterns excludes the file name
excludedBy(fileName, patterns) ==
    \E j \in 1..Len(patterns) : patternExcludes(fileName, patterns[j])

\* lines 356 and 371-385: the check is made on the lower-cased name, with
\* CONFIG.EXCLUDE_PATTERNS as they are configured
excludeCheck(f) == ~excludedBy(toLowerCase(f.name), EXCLUDE_PATTERNS)

\* a header check that only warns
headerCheckWarns(f, readOk) == TRUE

\* a header check that rejects the file whose header cannot be read
headerCheckStrict(f, readOk) ==
    readOk /\ (IF Len(f.head) >= 4 THEN SubSeq(f.head, 1, 4) = PdfMagic ELSE TRUE)

\* lines 388-404: readOk = FALSE when opening or reading the file throws
headerCheck(f, readOk) ==
    IF readOk
    THEN LET bytesRead == Len(f.head)
         IN IF bytesRead >= 4 THEN SubSeq(f.head, 1, 4) = PdfMagic ELSE TRUE
    ELSE TRUE

validatePDFFile(f, exists, readOk) ==
    /\ readableCheck(f, exists)
    /\ sizeCheck(f)
    /\ extensionCheck(f)
    /\ excludeCheck(f)
    /\ headerCheck(f, readOk)

(* ------------------------------------------------------------------ *)
(* moveFile                                                            *)
(* ------------------------------------------------------------------ *)
\* a directory is a set of entries [name, file, serial]: name is the name the
\* file carries in that directory, file the file as it was dropped, and serial
\* tells apart the files that were dropped with the same content and name
hasName(dir, name) == \E x \in dir : x.name = name

entryOf(dir, name) == CHOOSE x \in dir : x.name = name

\* lines 609-618: the name of the target file
targetName(fileName, targetDir, now) ==
    IF hasName(targetDir, fileName)
    THEN LET baseName == substring(fileName, 0, lastIndexOf(fileName, "."))
             extension == substringFrom(fileName, lastIndexOf(fileName, "."))
         IN baseName \o <<"_">> \o numberToString(now) \o extension
    ELSE fileName

\* line 620: what file.renameTo returns; the rename fails when the source is
\* gone or when the platform refuses it (renameOk = FALSE)
renameSucceeds(d, fileName, renameOk) == hasName(d.source, fileName) /\ renameOk

\* a rename that leaves the source entry where it is
renameToCopies(d, fileName, target, tname, renameOk) ==
    IF hasName(d.source, fileName) /\ renameOk
    THEN LET e == entryOf(d.source, fileName)
         IN [d EXCEPT ![target] = {x \in @ : x.name # tname} \cup {[e EXCEPT !.name = tname]}]
    ELSE d

\* java.io.File.renameTo: fails when the source is gone; when the target
\* exists the platform either replaces it or refuses (renameOk)
renameTo(d, fileName, target, tname, renameOk) ==
    IF renameSucceeds(d, fileName, renameOk)
    THEN LET e == entryOf(d.source, fileName)
         IN [d EXCEPT !.source = @ \ {e},
                      ![target] = {x \in @ : x.name # tname}
                                      \cup {[e EXCEPT !.name = tname]}]
    ELSE d

moveFile(d, fileName, target, now, renameOk) ==
    renameTo(d, fileName, target, targetName(fileName, d[target], now), renameOk)

(* ------------------------------------------------------------------ *)
(* State                                                               *)
(* ------------------------------------------------------------------ *)
VARIABLES
    files,      \* files[f]: how many times the environment dropped file f
    dirs,       \* the source, processed and error directories
    sords,      \* the records of the archive (folders and documents)
    workflows,  \* the workflow instances of the archive
    stats,      \* stats.totalProcessed, stats.totalErrors, stats.lastRun, and the
                \* summaries logStatistics has logged (stats.summaries)
    cycles,     \* calls of processPDFFiles so far
    active,     \* calls of processPDFFiles that have begun and not returned
    timer,      \* the interval timer: "none" before setInterval, then "armed", and
                \* "pending" while an expired interval waits for its callback to run
    budget,     \* what the run may still use: budget.files (files to drop),
                \* budget.cycles (scan cycles), budget.faults (failures)
    pc,         \* position of the single thread of the script
    scan,       \* getValidPDFFiles: the entries listFiles returned (scan.listed) and
                \* the names whose header could not be read (scan.unread); the
                \* outcomes the loop of processPDFFiles has counted (scan.outcomes);
                \* stats.totalProcessed and stats.totalErrors as they were when
                \* the loop began (scan.processed, scan.errors); what the
                \* connection probe of the cycle found (scan.connection: "ok" while
                \* the loop runs, "failed" after a cycle whose probe failed); the
                \* number of import attempts begun in the cycle (scan.transactions)
    pdfFiles,   \* processPDFFiles: the scan result (file names in the source directory)
    idx,        \* processPDFFiles: loop index i (1-based)
    attempts,   \* processSinglePDFWithRetry: attempts
    parentId,   \* importFileToELOWithValidation: parentId
    sordId,     \* importFileToELOWithValidation / processSinglePDFWithRetry: sordId
    wfAttempts, \* startWorkflowWithRetry: attempts
    call,       \* history of the current call of processSinglePDFWithRetry
    sample,     \* a file and a list of exclusion patterns handed to the checks of
                \* validatePDFFile, and what the checks answered
    startup     \* lines 15-60 and 632-641: the file config.json the script finds,
                \* the CONFIG it builds, whether the logger exists, and the log

vars == <<files, dirs, sords, workflows, stats, cycles, active, timer, budget, pc, scan,
          pdfFiles, idx, attempts, parentId, sordId, wfAttempts, call, sample,
          startup>>

Clock == 1..MaxClock

\* an operation may fail while the run has failures left
MayFail == budget.faults > 0

\* the outcomes an operation can have now: ok, or one of its failures
Outcomes(ok, failures) == IF MayFail THEN ok \cup failures ELSE ok

Fault(failed) == budget' = IF failed THEN [budget EXCEPT !.faults = @ - 1] ELSE budget

\* history of a call of processSinglePDFWithRetry:
\*   file, name   the file the call is about
\*   attempts     import attempts begun
\*   failures     times the catch block of the retry loop ran
\*   error        the error the current attempt threw ("" when none)
\*   headerRead   the header read of the validation the current attempt has
\*                just made: "ok" or "throws" ("none" before and after)
\*   checkedIn    the current attempt checked in the metadata of a record
\*   deleteTried  compensating delete of the current attempt: "no", "ok", "failed"
\*   kept         ids of the records whose compensating delete failed
\*   committed    ids of the records whose metadata the call checked in
\*   sleeps       the backoff sleeps, in order
\*   moves        the target directories handed to the mover, in order
\*   taken        the name the mover chose was already present in the target
\*   renamed      the rename of the mover succeeded
\*   imported     id returned by the import (0: none)
\*   afterImport  import attempts begun after an import returned an id
\*   wfFailures   attempts of startWorkflowWithRetry that failed
\*   wfSleeps     the sleeps of startWorkflowWithRetry, in order
\*   wfInterrupted a sleep of startWorkflowWithRetry was interrupted
\*   wfThrew      startWorkflowWithRetry threw
\*   maskLookup   the mask lookup of the current attempt: "found", "noId" when
\*                the mask was not found or the lookup threw ("none" before)
\*   trace        the archive calls of the current attempt from checkinSord on,
\*                in order, each with how it ended
\*   result       "running", "true", "false" or "threw"
NoCall ==
    [file |-> NoId, name |-> <<>>, attempts |-> 0, failures |-> 0, error |-> "",
     headerRead |-> "none", checkedIn |-> FALSE, deleteTried |-> "no", kept |-> {},
     committed |-> {}, sleeps |-> <<>>, moves |-> <<>>, taken |-> FALSE,
     renamed |-> FALSE, imported |-> 0, afterImport |-> 0, wfFailures |-> 0,
     wfSleeps |-> <<>>, wfInterrupted |-> FALSE, wfThrew |-> FALSE,
     maskLookup |-> "none", trace |-> <<>>, result |-> "none"]

NoScan == [listed |-> {}, unread |-> {}, outcomes |-> <<>>, processed |-> 0, errors |-> 0,
           connection |-> "none", transactions |-> 0]

InitWith(maxFiles, maxCycles, maxFaults, processedBefore) ==
    /\ files = [f \in FileCatalog |-> 0]
    /\ dirs = [source |-> {}, processed |-> {}, error |-> {}]
    /\ sords = {}
    /\ workflows = {}
    /\ stats = [totalProcessed |-> processedBefore, totalErrors |-> 0, lastRun |-> 0,
                summaries |-> {}]
    /\ cycles = 0
    /\ active = 0
    /\ timer = "none"
    /\ budget = [files |-> maxFiles, cycles |-> maxCycles, faults |-> maxFaults]
    /\ pc = "main"
    /\ scan = NoScan
    /\ pdfFiles = <<>>
    /\ idx = 0
    /\ attempts = 0
    /\ parentId = 0
    /\ sordId = 0
    /\ wfAttempts = 0
    /\ call = NoCall

\* no file is handed to the checks on its own
NoSample == [file |-> NoFile, patterns |-> <<>>, checked |-> FALSE, sizeOk |-> FALSE,
            excluded |-> FALSE, rejectedBy |-> "none"]

\* lines 41-55: the built-in configuration
DefaultConfig ==
    [paths |-> "built-in",
     INTERVAL |-> 30000,
     MAX_FILE_SIZE |-> MAX_FILE_SIZE,
     ALLOWED_EXTENSIONS |-> ALLOWED_EXTENSIONS,
     EXCLUDE_PATTERNS |-> EXCLUDE_PATTERNS,
     RETRY_ATTEMPTS |-> RETRY_ATTEMPTS,
     CONNECTION_TIMEOUT |-> 30000,
     LOG_LEVEL |-> "INFO"]

\* no config.json: the file does not exist
NoDocument ==
    [sections |-> {}, intervalSeconds |-> 0, maxFileSizeMB |-> 0, excludePatterns |-> <<>>,
     retryAttempts |-> 0, timeout |-> 0, level |-> ""]

\* the start of the script is not part of the run
NoStartup ==
    [step |-> "none", configFile |-> [state |-> "absent", data |-> NoDocument],
     CONFIG |-> DefaultConfig, fallback |-> FALSE, logger |-> FALSE, log |-> <<>>]

Init == InitWith(MaxFiles, MaxCycles, MaxFaults, 0) /\ sample = NoSample /\ startup = NoStartup

InitNoFaults == InitWith(MoreFiles, MoreCycles, 0, 0) /\ sample = NoSample /\ startup = NoStartup

\* the outcomes stats.totalProcessed has counted when the run begins: none, or
\* nine from earlier cycles whose files and records have been cleared away since
CountedBefore == {0, 9}

InitLongRun ==
    /\ \E n \in CountedBefore : InitWith(LongFiles, LongCycles, LongFaults, n)
    /\ sample = NoSample /\ startup = NoStartup

(* ------------------------------------------------------------------ *)
(* Environment: a file is dropped into the source directory            *)
(* ------------------------------------------------------------------ *)
\* the files dropped so far
Dropped(fs) ==
    {id \in [file : FileCatalog,
             serial : 1..(MaxFiles + MoreFiles + LongFiles + BasicFiles)] :
        id.serial <= fs[id.file]}

Arrive ==
    /\ budget.files > 0
    /\ budget' = [budget EXCEPT !.files = @ - 1]
    /\ \E f \in FileCatalog :
          /\ ~hasName(dirs.source, f.name)
          /\ files' = [files EXCEPT ![f] = @ + 1]
          /\ dirs' = [dirs EXCEPT !.source =
                          @ \cup {[name |-> f.name, file |-> f, serial |-> files[f] + 1]}]
    /\ UNCHANGED <<startup, sample, sords, workflows, stats, cycles, active, timer, pc, scan, pdfFiles, idx,
                   attempts, parentId, sordId, wfAttempts, call>>

(* ------------------------------------------------------------------ *)
(* main and the interval timer                                         *)
(* ------------------------------------------------------------------ *)
\* a connection check that lets the cycle go on without a connection
validateELOConnectionAlways(outcome) == TRUE

\* lines 453-468: validateELOConnection, FALSE when getServerInfo fails
validateELOConnection(outcome) == outcome = "ok"

\* lines 645-651: the service starts only when the connection probe succeeds,
\* and then calls processPDFFiles at once
Main ==
    /\ pc = "main"
    /\ \E probe \in Outcomes({"ok"}, {"noServerInfo"}) :
          IF validateELOConnection(probe)
          THEN /\ pc' = "cycle" /\ cycles' = cycles + 1 /\ active' = active + 1
               /\ budget' = [budget EXCEPT !.cycles = @ - 1]
          ELSE /\ pc' = "stopped" /\ cycles' = cycles /\ active' = active
               /\ Fault(TRUE)
    /\ UNCHANGED <<startup, sample, files, dirs, sords, workflows, stats, timer, scan, pdfFiles, idx,
                   attempts, parentId, sordId, wfAttempts, call>>

\* where the thread goes when processPDFFiles returns: back into main, which
\* goes on to setInterval (lines 651-654), or out of the interval callback
afterReturn(t) == IF t = "none" THEN "schedule" ELSE "idle"

\* lines 654-658: main sets up the interval and ends
SetInterval ==
    /\ pc = "schedule"
    /\ timer' = "armed"
    /\ pc' = "idle"
    /\ UNCHANGED <<startup, sample, files, dirs, sords, workflows, stats, cycles, active, budget, scan,
                   pdfFiles, idx, attempts, parentId, sordId, wfAttempts, call>>

\* the interval expires, whatever the script is doing at that moment
TimerFires ==
    /\ timer = "armed"
    /\ timer' = "pending"
    /\ UNCHANGED <<startup, sample, files, dirs, sords, workflows, stats, cycles, active, budget, pc, scan,
                   pdfFiles, idx, attempts, parentId, sordId, wfAttempts, call>>

\* an interval that expired while the script is running stays pending
mayDispatchAnytime(p) == TRUE

\* setInterval: the callback of an expired interval runs when no code of the
\* script is running (a call that sleeps is still running)
mayDispatch(p) == p = "idle"

\* lines 654-656: the interval callback calls processPDFFiles
Tick ==
    /\ timer = "pending"
    /\ mayDispatch(pc)
    /\ budget.cycles > 0
    /\ budget' = [budget EXCEPT !.cycles = @ - 1]
    /\ timer' = "armed"
    /\ pc' = "cycle"
    /\ cycles' = cycles + 1
    /\ active' = active + 1
    /\ scan' = NoScan
    /\ UNCHANGED <<startup, sample, files, dirs, sords, workflows, stats, pdfFiles, idx,
                   attempts, parentId, sordId, wfAttempts, call>>

(* ------------------------------------------------------------------ *)
(* processPDFFiles                                                     *)
(* ------------------------------------------------------------------ *)
\* the orders in which listFiles may return the names of set S
Orders(S) ==
    {o \in [1..Cardinality(S) -> S] : \A a, b \in 1..Cardinality(S) : o[a] = o[b] => a = b}

\* a scan that leaves out the files the archive already holds a record for
getValidPDFFilesOnce(d, unread) ==
    {x.name : x \in {y \in d.source :
                        /\ y.file.isFile
                        /\ validatePDFFile(y.file, TRUE, y.name \notin unread)
                        /\ ~ \E r \in sords : r.file = IdOf(y) /\ r.content}}

\* lines 420-447: the names that pass isFile and validatePDFFile; unread is
\* the set of names whose header read throws during this scan
getValidPDFFiles(d, unread) ==
    {x.name : x \in {y \in d.source :
                        /\ y.file.isFile
                        /\ validatePDFFile(y.file, TRUE, y.name \notin unread)}}

\* a connection probe that lets its failure end the service
afterProbeFailureStops(t) == "stopped"

\* lines 79-82: a failed connection probe is logged and processPDFFiles returns
afterProbeFailure(t) == afterReturn(t)

\* a scan that goes on without work
noWorkNever(list) == FALSE

\* line 91: pdfFiles.length === 0
noWork(list) == Len(list) = 0

\* lines 72-98: probe the connection, scan the source directory (a listFiles
\* that throws leaves the scan result empty, lines 443-444)
CycleBegin ==
    /\ pc = "cycle"
    /\ stats' = [stats EXCEPT !.lastRun = cycles]
    /\ \E probe \in Outcomes({"ok"}, {"noServerInfo"}) :
          IF ~validateELOConnection(probe)
          THEN /\ pc' = afterProbeFailure(timer)
               /\ active' = active - 1
               /\ Fault(TRUE)
               /\ scan' = [NoScan EXCEPT !.connection = "failed"]
               /\ UNCHANGED <<pdfFiles, idx>>
          ELSE \E list \in Outcomes({"ok"}, {"listThrows"}),
                  unread \in SUBSET {x.name : x \in dirs.source} :
                  /\ list = "listThrows" => unread = {}
                  /\ Cardinality(unread) <= budget.faults
                  /\ budget' = [budget EXCEPT !.faults =
                                    @ - IF list = "ok" THEN Cardinality(unread) ELSE 1]
                  /\ \E order \in Orders(IF list = "ok"
                                         THEN getValidPDFFiles(dirs, unread) ELSE {}) :
                        IF noWork(order)
                        THEN /\ pc' = afterReturn(timer)
                             /\ active' = active - 1
                             /\ scan' = [NoScan EXCEPT !.connection =
                                            IF probe = "ok" THEN "none" ELSE "failed"]
                             /\ UNCHANGED <<pdfFiles, idx>>
                        ELSE /\ pc' = "loop"
                             /\ scan' = [listed |-> dirs.source, unread |-> unread,
                                         outcomes |-> <<>>,
                                         processed |-> stats.totalProcessed,
                                         errors |-> stats.totalErrors,
                                         connection |->
                                            IF probe = "ok" THEN "ok" ELSE "failed",
                                         transactions |-> 0]
                             /\ pdfFiles' = order
                             /\ idx' = 1
                             /\ active' = active
    /\ UNCHANGED <<startup, sample, files, dirs, sords, workflows, cycles, timer,
                   attempts, parentId, sordId, wfAttempts, call>>

\* the file a name of the source directory denotes (a placeholder when it is gone)
fileAt(d, name) ==
    IF hasName(d.source, name) THEN entryOf(d.source, name).file ELSE NoFile

\* a loop that works on the first file of the scan result again
fileOfIterationFirst(list, i) == list[1]

\* line 103: pdfFiles[i], the file of the i-th iteration of the loop
fileOfIteration(list, i) == list[i]

\* lines 101-103 and 138-139: the loop calls processSinglePDFWithRetry(pdfFiles[i])
StartFile ==
    /\ pc = "loop"
    /\ idx <= Len(pdfFiles)
    /\ attempts' = 0
    /\ call' = [NoCall EXCEPT
                   !.name = fileOfIteration(pdfFiles, idx),
                   !.file = IF hasName(dirs.source, fileOfIteration(pdfFiles, idx))
                            THEN IdOf(entryOf(dirs.source, fileOfIteration(pdfFiles, idx)))
                            ELSE NoId,
                   !.result = "running"]
    /\ pc' = "retry"
    /\ UNCHANGED <<startup, sample, files, dirs, sords, workflows, stats, cycles, active, timer, budget, scan, pdfFiles,
                   idx, parentId, sordId, wfAttempts>>

\* line 122: (stats.totalProcessed + stats.totalErrors) % 10 === 0
statisticsDue(st) == (st.totalProcessed + st.totalErrors) % 10 = 0

\* line 521: Math.round((totalProcessed / (totalProcessed + totalErrors)) * 100);
\* the quotient of 0 by 0 is not a number, written -1 here
successRate(processed, errors) ==
    IF processed + errors = 0
    THEN -1
    ELSE (200 * processed + (processed + errors)) \div (2 * (processed + errors))

\* lines 513-524: logStatistics logs the totals and the success rate
logStatistics(st) ==
    [st EXCEPT !.summaries =
        @ \cup {[total |-> st.totalProcessed + st.totalErrors,
                 rate |-> successRate(st.totalProcessed, st.totalErrors)]}]

\* lines 118-124: the loop is over: log the statistics when they are due, return
CycleEnd ==
    /\ pc = "loop"
    /\ idx > Len(pdfFiles)
    /\ stats' = IF statisticsDue(stats) THEN logStatistics(stats) ELSE stats
    /\ pc' = afterReturn(timer)
    /\ active' = active - 1
    /\ scan' = NoScan
    /\ pdfFiles' = <<>>
    /\ idx' = 0
    /\ UNCHANGED <<startup, sample, files, dirs, sords, workflows, cycles, timer, budget,
                   attempts, parentId, sordId, wfAttempts, call>>

(* ------------------------------------------------------------------ *)
(* processSinglePDFWithRetry                                           *)
(* ------------------------------------------------------------------ *)
\* a retry loop that runs once more
moreAttemptsInclusive(n) == n <= RETRY_ATTEMPTS

\* a retry loop without a limit
moreAttemptsUnbounded(n) == TRUE

\* line 141: the condition of the retry loop
moreAttempts(n) == n < RETRY_ATTEMPTS

\* lines 141-144: another attempt begins
AttemptBegin ==
    /\ pc = "retry"
    /\ moreAttempts(attempts)
    /\ attempts' = attempts + 1
    /\ call' = [call EXCEPT !.attempts = @ + 1,
                            !.error = "",
                            !.headerRead = "none",
                            !.checkedIn = FALSE,
                            !.deleteTried = "no",
                            !.trace = <<>>,
                            !.maskLookup = "none",
                            !.afterImport = IF call.imported # 0 THEN @ + 1 ELSE @]
    /\ scan' = [scan EXCEPT !.transactions = @ + 1]
    /\ pc' = "validate"
    /\ UNCHANGED <<startup, sample, files, dirs, sords, workflows, stats, cycles, active, timer, budget, pdfFiles,
                   idx, parentId, sordId, wfAttempts>>

\* a backoff that starts at one second
waitTimeFromOne(n) == (2 ^ (n - 1)) * 1000

\* line 172: Math.pow(2, attempts) * 1000
waitTime(n) == (2 ^ n) * 1000

\* lines 166-176: the attempt threw; sleep when attempts remain.  A sleep that
\* is interrupted throws out of processSinglePDFWithRetry.
AttemptFailed ==
    /\ pc = "failed"
    /\ IF attempts < RETRY_ATTEMPTS
       THEN \E sleep \in Outcomes({"ok"}, {"interrupted"}) :
               /\ Fault(sleep # "ok")
               /\ IF sleep = "interrupted"
                  THEN /\ pc' = "unhandled"
                       /\ call' = [call EXCEPT !.failures = @ + 1, !.headerRead = "none",
                                               !.trace = <<>>, !.maskLookup = "none",
                                               !.result = "threw"]
                  ELSE /\ pc' = "retry"
                       /\ call' = [call EXCEPT !.failures = @ + 1, !.headerRead = "none",
                                               !.trace = <<>>, !.maskLookup = "none",
                                               !.sleeps = Append(@, waitTime(attempts))]
       ELSE /\ pc' = "retry"
            /\ call' = [call EXCEPT !.failures = @ + 1, !.headerRead = "none",
                                    !.trace = <<>>, !.maskLookup = "none"]
            /\ UNCHANGED budget
    /\ UNCHANGED <<startup, sample, files, dirs, sords, workflows, stats, cycles, active, timer, scan, pdfFiles,
                   idx, attempts, parentId, sordId, wfAttempts>>

\* a caller that reports a failure when the mover did not move the file
reportedIfMoved(result, moved) == IF moved THEN result ELSE "false"

\* lines 158-161, 181-182 and 112-114: the mover returns nothing and throws
\* nothing, so what the caller reports does not depend on the move
reported(result, moved) == result

\* the mover as processSinglePDFWithRetry and processPDFFiles call it: the
\* clock value and the outcome of the rename are the environment's
\* (renameTo onto an existing path replaces it on some platforms and fails on others)
Move(target, result) ==
    \E now \in Clock :
        LET taken == hasName(dirs[target], targetName(call.name, dirs[target], now))
        IN \E rename \in IF taken THEN {"ok", "fails"} ELSE Outcomes({"ok"}, {"fails"}) :
              /\ Fault(rename # "ok" /\ ~taken)
              /\ dirs' = moveFile(dirs, call.name, target, now, rename = "ok")
              /\ call' = [call EXCEPT !.moves = Append(@, target),
                                      !.taken = taken,
                                      !.renamed = renameSucceeds(dirs, call.name, rename = "ok"),
                                      !.result = reported(result,
                                          renameSucceeds(dirs, call.name, rename = "ok"))]

\* lines 179-182: all attempts failed, the file goes to the error directory
Exhausted ==
    /\ pc = "retry"
    /\ ~moreAttempts(attempts)
    /\ Move("error", "false")
    /\ pc' = "ret"
    /\ UNCHANGED <<startup, sample, files, sords, workflows, stats, cycles, active, timer, scan, pdfFiles,
                   idx, attempts, parentId, sordId, wfAttempts>>

\* lines 157-161: the import returned an id, the file goes to the processed directory
MoveProcessed ==
    /\ pc = "moveok"
    /\ Move("processed", "true")
    /\ pc' = "ret"
    /\ UNCHANGED <<startup, sample, files, sords, workflows, stats, cycles, active, timer, scan, pdfFiles,
                   idx, attempts, parentId, sordId, wfAttempts>>

\* an error of a file that ends the cycle
afterUnhandledEnds(t) == afterReturn(t)

\* lines 110-115: the error of a file is caught inside the loop, which goes on
afterUnhandled(t) == "ret"

\* lines 110-112: processSinglePDFWithRetry threw, the file goes to the error directory
Unhandled ==
    /\ pc = "unhandled"
    /\ Move("error", "threw")
    /\ pc' = afterUnhandled(timer)
    /\ UNCHANGED <<startup, sample, files, sords, workflows, stats, cycles, active, timer, scan, pdfFiles,
                   idx, attempts, parentId, sordId, wfAttempts>>

\* a loop that does not count the file whose call threw
countOutcomeSkipsThrown(st, result) ==
    IF result = "true"
    THEN [st EXCEPT !.totalProcessed = @ + 1]
    ELSE IF result = "false" THEN [st EXCEPT !.totalErrors = @ + 1] ELSE st

\* lines 103-109 and 113-114: totalProcessed counts the call that returned
\* true, totalErrors the call that returned false or threw
countOutcome(st, result) ==
    IF result = "true"
    THEN [st EXCEPT !.totalProcessed = @ + 1]
    ELSE [st EXCEPT !.totalErrors = @ + 1]

\* lines 103-109 and 113-114: the loop counts the outcome and goes on.  (The
\* catch of lines 126-129 is not reached: every call processPDFFiles makes
\* outside the try of the loop catches its errors itself.)
Account ==
    /\ pc = "ret"
    /\ stats' = countOutcome(stats, call.result)
    /\ idx' = idx + 1
    /\ call' = NoCall
    /\ attempts' = 0
    /\ parentId' = 0
    /\ sordId' = 0
    /\ wfAttempts' = 0
    /\ scan' = [scan EXCEPT !.outcomes = Append(@, call.result)]
    /\ pc' = "loop"
    /\ UNCHANGED <<startup, sample, files, dirs, sords, workflows, cycles, active, timer, budget, pdfFiles>>

(* ------------------------------------------------------------------ *)
(* importFileToELOWithValidation                                       *)
(* ------------------------------------------------------------------ *)
\* lines 192-195: the file is validated again; a rejection throws
ImportValidate ==
    /\ pc = "validate"
    /\ \E read \in Outcomes({"ok"}, {"throws"}) :
          /\ Fault(read # "ok")
          /\ IF validatePDFFile(fileAt(dirs, call.name),
                                hasName(dirs.source, call.name), read = "ok")
             THEN /\ pc' = "folder"
                  /\ call' = [call EXCEPT !.headerRead = read]
             ELSE /\ pc' = "failed"
                  /\ call' = [call EXCEPT !.headerRead = read,
                                          !.error = "File validation failed"]
    /\ UNCHANGED <<startup, sample, files, dirs, sords, workflows, stats, cycles, active, timer, scan, pdfFiles,
                   idx, attempts, parentId, sordId, wfAttempts>>

Folder(id, name) ==
    [id |-> id, type |-> "folder", name |-> name, parent |-> 1, mask |-> 0,
     content |-> FALSE, file |-> NoId]

Document(id, name, parent, mask, file) ==
    [id |-> id, type |-> "doc", name |-> name, parent |-> parent, mask |-> mask,
     content |-> FALSE, file |-> file]

\* the archive assigns an id no record carries (id 1 is the archive's root)
newId(archive) ==
    CHOOSE n \in 2..(Cardinality(archive) + 2) :
        /\ \A r \in archive : r.id # n
        /\ \A m \in 2..(n - 1) : \E r \in archive : r.id = m

\* findFirstSords with findByIndex.name: the folders that carry the searched name
findByName(archive, name) == {r \in archive : r.type = "folder" /\ r.name = name}

\* lines 527-556: getOrCreateArchiveFolder
ResolveFolder ==
    /\ pc = "folder"
    /\ \E outcome \in Outcomes({"ok"}, {"findThrows", "createThrows", "checkinThrows"}) :
          /\ Fault(outcome # "ok")
          /\ CASE outcome = "findThrows" ->
                  /\ pc' = "failed"
                  /\ call' = [call EXCEPT !.error = "archive error", !.headerRead = "none"]
                  /\ UNCHANGED <<sords, parentId>>
               [] outcome = "ok" /\ findByName(sords, ARCHIVE_PATH) # {} ->
                  /\ \E r \in findByName(sords, ARCHIVE_PATH) : parentId' = r.id
                  /\ pc' = "record"
                  /\ call' = [call EXCEPT !.headerRead = "none"]
                  /\ UNCHANGED sords
               [] outcome = "ok" /\ findByName(sords, ARCHIVE_PATH) = {} ->
                  /\ sords' = sords \cup {Folder(newId(sords), substringFrom(ARCHIVE_PATH, 1))}
                  /\ parentId' = newId(sords)
                  /\ pc' = "record"
                  /\ call' = [call EXCEPT !.headerRead = "none"]
               [] OTHER ->
                  /\ findByName(sords, ARCHIVE_PATH) = {}
                  /\ pc' = "failed"
                  /\ call' = [call EXCEPT !.error = "archive error", !.headerRead = "none"]
                  /\ UNCHANGED <<sords, parentId>>
    /\ UNCHANGED <<startup, sample, files, dirs, workflows, stats, cycles, active, timer, scan, pdfFiles,
                   idx, attempts, sordId, wfAttempts>>

\* a mask lookup that lets its failure escape (-1: the lookup threw)
getMaskIdThrows(lookup) == IF lookup = "ok" THEN 1 ELSE -1

\* lines 558-576: getMaskId returns the id of the mask, or null (0) when the
\* mask is not found or the lookup throws
getMaskId(lookup) == IF lookup = "ok" THEN 1 ELSE 0

\* how many of the outcomes are failures
Failures(outcomes) == Cardinality({k \in DOMAIN outcomes : outcomes[k] # "ok"})

\* lines 201-227: create the draft record, name it, look up the mask and bind
\* it when there is one, check the record in.  createSord and checkinSord may
\* throw; an error thrown by getMaskId would leave through the catch of line 244.
CreateRecord ==
    /\ pc = "record"
    /\ \E create \in Outcomes({"ok"}, {"throws"}),
          mask \in Outcomes({"ok"}, {"notFound", "throws"}),
          checkin \in Outcomes({"ok"}, {"throws"}) :
          LET maskId == getMaskId(mask)
          IN /\ create # "ok" => (mask = "ok" /\ checkin = "ok")
             /\ maskId < 0 => checkin = "ok"
             /\ Failures(<<create, mask, checkin>>) <= budget.faults
             /\ budget' = [budget EXCEPT !.faults = @ - Failures(<<create, mask, checkin>>)]
             /\ CASE create # "ok" ->
                     /\ pc' = "failed"
                     /\ call' = [call EXCEPT !.error = "archive error"]
                     /\ UNCHANGED <<sords, sordId>>
                  [] create = "ok" /\ maskId < 0 ->
                     /\ pc' = "failed"
                     /\ call' = [call EXCEPT !.error = "archive error",
                                             !.maskLookup = "noId"]
                     /\ UNCHANGED <<sords, sordId>>
                  [] create = "ok" /\ maskId >= 0 /\ checkin # "ok" ->
                     /\ pc' = "failed"
                     /\ call' = [call EXCEPT
                                    !.error = "archive error",
                                    !.maskLookup = IF mask = "ok" THEN "found" ELSE "noId",
                                    !.trace = Append(@, "checkinSord:throws")]
                     /\ UNCHANGED <<sords, sordId>>
                  [] OTHER ->
                     /\ sords' = sords \cup
                           {Document(newId(sords),
                                     substring(call.name, 0, lastIndexOf(call.name, ".")),
                                     parentId, maskId, call.file)}
                     /\ sordId' = newId(sords)
                     /\ call' = [call EXCEPT
                                    !.committed = @ \cup {newId(sords)},
                                    !.checkedIn = TRUE,
                                    !.maskLookup = IF mask = "ok" THEN "found" ELSE "noId",
                                    !.trace = Append(@, "checkinSord")]
                     /\ pc' = "upload"
    /\ UNCHANGED <<startup, sample, files, dirs, workflows, stats, cycles, active, timer, scan, pdfFiles,
                   idx, attempts, parentId, wfAttempts>>

\* lines 263-276: the calls uploadPDFFile makes, in order, and how each ended;
\* checkinDocEnd is called only when the upload reported success
uploadCalls(outcome) ==
    CASE outcome = "beginThrows" -> <<"checkinDocBegin:throws">>
      [] outcome = "readFails" -> <<"checkinDocBegin", "read:null">>
      [] outcome = "uploadFails" -> <<"checkinDocBegin", "read", "upload:false">>
      [] outcome = "endThrows" ->
            <<"checkinDocBegin", "read", "upload", "checkinDocEnd:throws">>
      [] OTHER -> <<"checkinDocBegin", "read", "upload", "checkinDocEnd">>

\* an upload that reports success although checkinDocEnd threw
uploadPDFFileIgnoresEnd(outcome) ==
    IF outcome \in {"ok", "endThrows"} THEN "true" ELSE "false"

\* an upload that lets its errors escape
uploadPDFFileThrows(outcome) == IF outcome = "ok" THEN "true" ELSE "throws"

\* lines 256-287: uploadPDFFile returns true when checkinDocBegin, the read, the
\* upload and checkinDocEnd all succeed; every failure inside it is caught and
\* reported as false
uploadPDFFile(outcome) == IF outcome = "ok" THEN "true" ELSE "false"

\* a workflow error that fails the import attempt
afterWorkflowErrorFails == "failed"

\* where the error of startWorkflowWithRetry leaves processSinglePDFWithRetry:
\* lines 151-155 catch it and go on to the move
afterWorkflowError == "moveok"

\* a delete that reports success and removes nothing
deleteSordKeeps(archive, id) == archive

\* deleteSord removes the record from the archive
deleteSord(archive, id) == {r \in archive : r.id # id}

\* lines 230-234: upload, and on success return the id to processSinglePDFWithRetry;
\* an error thrown by the upload would leave through the catch of line 244
Upload ==
    /\ pc = "upload"
    /\ \E outcome \in Outcomes({"ok"}, {"beginThrows", "readFails", "uploadFails", "endThrows"}) :
          /\ Fault(outcome # "ok")
          /\ CASE uploadPDFFile(outcome) = "true" ->
                  /\ sords' = {IF r.id = sordId THEN [r EXCEPT !.content = TRUE] ELSE r :
                                  r \in sords}
                  /\ call' = [call EXCEPT !.imported = sordId,
                                          !.trace = @ \o uploadCalls(outcome)]
                  /\ wfAttempts' = 0
                  /\ pc' = "workflow"
               [] uploadPDFFile(outcome) = "false" ->
                  /\ pc' = "compensate"
                  /\ call' = [call EXCEPT !.trace = @ \o uploadCalls(outcome)]
                  /\ UNCHANGED <<sords, wfAttempts>>
               [] OTHER ->
                  /\ pc' = "failed"
                  /\ call' = [call EXCEPT !.error = "archive error",
                                          !.trace = @ \o uploadCalls(outcome)]
                  /\ UNCHANGED <<sords, wfAttempts>>
    /\ UNCHANGED <<startup, sample, files, dirs, workflows, stats, cycles, active, timer, scan, pdfFiles,
                   idx, attempts, parentId, sordId>>

\* lines 235-242: the upload failed: delete the record (a failing delete is
\* only logged), then throw
Compensate ==
    /\ pc = "compensate"
    /\ \E delete \in Outcomes({"ok"}, {"throws"}) :
          /\ Fault(delete # "ok")
          /\ IF delete = "ok"
             THEN /\ sords' = deleteSord(sords, sordId)
                  /\ call' = [call EXCEPT !.deleteTried = "ok",
                                          !.error = "File upload failed"]
             ELSE /\ call' = [call EXCEPT !.deleteTried = "failed",
                                          !.kept = @ \cup {sordId},
                                          !.error = "File upload failed"]
                  /\ UNCHANGED sords
    /\ pc' = "failed"
    /\ UNCHANGED <<startup, sample, files, dirs, workflows, stats, cycles, active, timer, scan, pdfFiles,
                   idx, attempts, parentId, sordId, wfAttempts>>

(* ------------------------------------------------------------------ *)
(* startWorkflowWithRetry                                              *)
(* ------------------------------------------------------------------ *)
Instance(archive, sord, started) ==
    [id |-> Cardinality(archive) + 1, sord |-> sord, started |-> started]

\* line 322: the delay before the next attempt
workflowDelay == 2000

\* a retry loop that goes on after the workflow was started
afterWorkflowStartedGoesOn == "workflow"

\* line 316: startWorkflowWithRetry returns when the workflow was started
afterWorkflowStarted == "moveok"

\* a retry that sleeps after every failed attempt
sleepsBetweenAlways(n) == TRUE

\* line 321: after the n-th failed attempt the function sleeps when attempts
\* remain, and throws the error otherwise
sleepsBetween(n) == n < maxAttempts

\* lines 297-327: one attempt to start the workflow.  A failed attempt is
\* followed by the sleep or by the throw to processSinglePDFWithRetry; a sleep
\* that is interrupted throws as well.
WorkflowAttempt ==
    /\ pc = "workflow"
    /\ wfAttempts < maxAttempts
    /\ wfAttempts' = wfAttempts + 1
    /\ \E outcome \in Outcomes({"ok"}, {"templateThrows", "templateNull", "createThrows",
                                        "startThrows"}) :
          /\ workflows' =
                CASE outcome = "ok" -> workflows \cup {Instance(workflows, sordId, TRUE)}
                  [] outcome = "startThrows" ->
                        workflows \cup {Instance(workflows, sordId, FALSE)}
                  [] OTHER -> workflows
          /\ IF outcome = "ok"
             THEN pc' = afterWorkflowStarted /\ UNCHANGED <<call, budget>>
             ELSE IF sleepsBetween(wfAttempts + 1)
                  THEN \E sleep \in IF budget.faults > 1 THEN {"ok", "interrupted"} ELSE {"ok"} :
                          /\ budget' = [budget EXCEPT !.faults =
                                            @ - IF sleep = "ok" THEN 1 ELSE 2]
                          /\ IF sleep = "ok"
                             THEN /\ pc' = IF wfAttempts + 1 < maxAttempts
                                           THEN "workflow" ELSE "moveok"
                                  /\ call' = [call EXCEPT
                                                 !.wfFailures = @ + 1,
                                                 !.wfSleeps = Append(@, workflowDelay)]
                             ELSE /\ pc' = afterWorkflowError
                                  /\ call' = [call EXCEPT !.wfFailures = @ + 1,
                                                          !.wfInterrupted = TRUE,
                                                          !.wfThrew = TRUE]
                  ELSE /\ Fault(TRUE)
                       /\ pc' = afterWorkflowError
                       /\ call' = [call EXCEPT !.wfFailures = @ + 1, !.wfThrew = TRUE]
    /\ UNCHANGED <<startup, sample, files, dirs, sords, stats, cycles, active, timer, scan, pdfFiles,
                   idx, attempts, parentId, sordId>>

Next ==
    \/ Arrive
    \/ Main
    \/ SetInterval
    \/ TimerFires
    \/ Tick
    \/ CycleBegin
    \/ StartFile
    \/ CycleEnd
    \/ AttemptBegin
    \/ AttemptFailed
    \/ Exhausted
    \/ MoveProcessed
    \/ Unhandled
    \/ Account
    \/ ImportValidate
    \/ ResolveFolder
    \/ CreateRecord
    \/ Upload
    \/ Compensate
    \/ WorkflowAttempt

Spec == Init /\ [][Next]_vars

\* the runs in which no archive call, file operation or sleep fails
NextNoFaults ==
    \/ Arrive
    \/ Main
    \/ SetInterval
    \/ TimerFires
    \/ Tick
    \/ CycleBegin
    \/ StartFile
    \/ CycleEnd
    \/ AttemptBegin
    \/ MoveProcessed
    \/ Account
    \/ ImportValidate
    \/ ResolveFolder
    \/ CreateRecord
    \/ Upload
    \/ WorkflowAttempt

SpecNoFaults == InitNoFaults /\ [][NextNoFaults]_vars

\* the runs of a service that has been running for a while
SpecLongRun == InitLongRun /\ [][Next]_vars

\* lines 71-129: the steps of processPDFFiles and of the functions it calls
CycleStep ==
    \/ CycleBegin
    \/ StartFile
    \/ CycleEnd
    \/ AttemptBegin
    \/ AttemptFailed
    \/ Exhausted
    \/ MoveProcessed
    \/ Unhandled
    \/ Account
    \/ ImportValidate
    \/ ResolveFolder
    \/ CreateRecord
    \/ Upload
    \/ Compensate
    \/ WorkflowAttempt

InitReturns == InitWith(ReturnFiles, ReturnCycles, ReturnFaults, 0) /\ sample = NoSample /\ startup = NoStartup

\* the runs in which every archive call, file operation and sleep returns: the
\* script is one thread, so a cycle that can take its next step takes it
SpecReturns == InitReturns /\ [][Next]_vars /\ WF_vars(CycleStep)

(* ------------------------------------------------------------------ *)
(* The basic script (unnamed/part_000)                                 *)
(* ------------------------------------------------------------------ *)
\* The basic script has the mover, the archive folder lookup and the mask
\* lookup of the enhanced script, no connection probe, no validation beyond
\* the extension, no retry, no compensating delete and no statistics.
InitBasic == InitWith(BasicFiles, BasicCycles, BasicFaults, 0) /\ sample = NoSample /\ startup = NoStartup

\* part_000 lines 340-345: main calls processPDFFiles at once
BasicMain ==
    /\ pc = "main"
    /\ pc' = "basic_cycle"
    /\ cycles' = cycles + 1
    /\ active' = active + 1
    /\ budget' = [budget EXCEPT !.cycles = @ - 1]
    /\ UNCHANGED <<startup, sample, files, dirs, sords, workflows, stats, timer, scan, pdfFiles, idx,
                   attempts, parentId, sordId, wfAttempts, call>>

\* where the thread goes when processPDFFiles of the basic script returns
basicAfterReturn(t) == IF t = "none" THEN "basic_schedule" ELSE "basic_idle"

\* part_000 lines 347-349: main sets up the interval and ends
BasicSetInterval ==
    /\ pc = "basic_schedule"
    /\ timer' = "armed"
    /\ pc' = "basic_idle"
    /\ UNCHANGED <<startup, sample, files, dirs, sords, workflows, stats, cycles, active, budget, scan,
                   pdfFiles, idx, attempts, parentId, sordId, wfAttempts, call>>

\* part_000 lines 347-349: the interval callback calls processPDFFiles
BasicTick ==
    /\ timer = "pending"
    /\ pc = "basic_idle"
    /\ budget.cycles > 0
    /\ budget' = [budget EXCEPT !.cycles = @ - 1]
    /\ timer' = "armed"
    /\ pc' = "basic_cycle"
    /\ cycles' = cycles + 1
    /\ active' = active + 1
    /\ UNCHANGED <<startup, sample, files, dirs, sords, workflows, stats, scan, pdfFiles, idx,
                   attempts, parentId, sordId, wfAttempts, call>>

\* part_000 lines 242-267: the names of the regular files whose lower-cased
\* name ends with .pdf
getPDFFiles(d) ==
    {x.name : x \in {y \in d.source :
                        y.file.isFile /\ endsWith(toLowerCase(y.name), <<".","p","d","f">>)}}

\* part_000 lines 40-56: scan the source directory (a listFiles that throws
\* leaves the scan result empty)
BasicScan ==
    /\ pc = "basic_cycle"
    /\ \E list \in Outcomes({"ok"}, {"listThrows"}) :
          /\ Fault(list # "ok")
          /\ \E order \in Orders(IF list = "ok" THEN getPDFFiles(dirs) ELSE {}) :
                IF Len(order) = 0
                THEN /\ pc' = basicAfterReturn(timer)
                     /\ active' = active - 1
                     /\ UNCHANGED <<scan, pdfFiles, idx>>
                ELSE /\ pc' = "basic_loop"
                     /\ scan' = [listed |-> dirs.source, unread |-> {}, outcomes |-> <<>>,
                                 processed |-> stats.totalProcessed,
                                 errors |-> stats.totalErrors,
                                 connection |-> "none", transactions |-> 0]
                     /\ pdfFiles' = order
                     /\ idx' = 1
                     /\ active' = active
    /\ UNCHANGED <<startup, sample, files, dirs, sords, workflows, stats, cycles, timer,
                   attempts, parentId, sordId, wfAttempts, call>>

\* part_000 lines 58-60 and 78-79: the loop calls processSinglePDF(pdfFiles[i])
BasicStartFile ==
    /\ pc = "basic_loop"
    /\ idx <= Len(pdfFiles)
    /\ call' = [NoCall EXCEPT
                   !.name = pdfFiles[idx],
                   !.file = IF hasName(dirs.source, pdfFiles[idx])
                            THEN IdOf(entryOf(dirs.source, pdfFiles[idx])) ELSE NoId,
                   !.attempts = 1,
                   !.result = "running"]
    /\ pc' = "basic_import"
    /\ UNCHANGED <<startup, sample, files, dirs, sords, workflows, stats, cycles, active, timer, budget, scan,
                   pdfFiles, idx, attempts, parentId, sordId, wfAttempts>>

\* part_000 lines 66-71: the loop is over, processPDFFiles returns
BasicCycleEnd ==
    /\ pc = "basic_loop"
    /\ idx > Len(pdfFiles)
    /\ pc' = basicAfterReturn(timer)
    /\ active' = active - 1
    /\ scan' = NoScan
    /\ pdfFiles' = <<>>
    /\ idx' = 0
    /\ UNCHANGED <<startup, sample, files, dirs, sords, workflows, stats, cycles, timer, budget,
                   attempts, parentId, sordId, wfAttempts, call>>

\* the archive after getOrCreateArchiveFolder (part_000 lines 186-211) found
\* or created the folder
withFolder(archive) ==
    IF findByName(archive, ARCHIVE_PATH) # {}
    THEN archive
    ELSE archive \cup {Folder(newId(archive), substringFrom(ARCHIVE_PATH, 1))}

\* the id getOrCreateArchiveFolder returns
folderId(archive) ==
    IF findByName(archive, ARCHIVE_PATH) # {}
    THEN (CHOOSE r \in findByName(archive, ARCHIVE_PATH) : TRUE).id
    ELSE newId(archive)

\* part_000 lines 102-151: importFileToELO resolves the folder, creates and
\* checks in the record and uploads the content; every error is thrown to
\* processSinglePDF and on to the loop, and the record checked in before a
\* failed upload stays in the archive
BasicImport ==
    /\ pc = "basic_import"
    /\ \E outcome \in (IF fileAt(dirs, call.name).canRead THEN {"ok"} ELSE {"readFails"})
                         \cup (IF MayFail THEN {"folderThrows", "createThrows", "uploadFails"}
                               ELSE {})
                         \cup (IF MayFail /\ fileAt(dirs, call.name).canRead
                               THEN {"maskNotFound"} ELSE {}) :
          /\ Fault(outcome \notin {"ok", "readFails"})
          /\ CASE outcome = "folderThrows" ->
                  /\ pc' = "basic_catch"
                  /\ UNCHANGED <<sords, parentId, sordId, call>>
               [] outcome = "createThrows" ->
                  /\ sords' = withFolder(sords)
                  /\ parentId' = folderId(sords)
                  /\ pc' = "basic_catch"
                  /\ UNCHANGED <<sordId, call>>
               [] OTHER ->
                  /\ sords' = withFolder(sords) \cup
                        {[Document(newId(withFolder(sords)),
                                   substring(call.name, 0, lastIndexOf(call.name, ".")),
                                   folderId(sords),
                                   getMaskId(IF outcome = "maskNotFound" THEN "notFound"
                                             ELSE "ok"),
                                   call.file)
                            EXCEPT !.content = (outcome \in {"ok", "maskNotFound"})]}
                  /\ parentId' = folderId(sords)
                  /\ sordId' = newId(withFolder(sords))
                  /\ IF outcome \in {"ok", "maskNotFound"}
                     THEN /\ pc' = "basic_workflow"
                          /\ call' = [call EXCEPT
                                         !.committed = {newId(withFolder(sords))},
                                         !.imported = newId(withFolder(sords))]
                     ELSE /\ pc' = "basic_catch"
                          /\ call' = [call EXCEPT
                                         !.committed = {newId(withFolder(sords))},
                                         !.error = "Failed to upload file content"]
    /\ UNCHANGED <<startup, sample, files, dirs, workflows, stats, cycles, active, timer, scan, pdfFiles,
                   idx, attempts, wfAttempts>>

\* part_000 lines 157-180: startWorkflow logs an error and throws it again
BasicWorkflow ==
    /\ pc = "basic_workflow"
    /\ \E outcome \in Outcomes({"ok"}, {"templateThrows", "templateNull", "createThrows",
                                        "startThrows"}) :
          /\ Fault(outcome # "ok")
          /\ workflows' =
                CASE outcome = "ok" -> workflows \cup {Instance(workflows, sordId, TRUE)}
                  [] outcome = "startThrows" ->
                        workflows \cup {Instance(workflows, sordId, FALSE)}
                  [] OTHER -> workflows
          /\ IF outcome = "ok"
             THEN pc' = "basic_moveok" /\ UNCHANGED call
             ELSE /\ pc' = "basic_catch"
                  /\ call' = [call EXCEPT !.wfFailures = 1, !.wfThrew = TRUE]
    /\ wfAttempts' = 1
    /\ UNCHANGED <<startup, sample, files, dirs, sords, stats, cycles, active, timer, scan, pdfFiles,
                   idx, attempts, parentId, sordId>>

\* part_000 lines 87-90: after startWorkflow returned, the file goes to the
\* processed directory (the mover of part_000 lines 315-337 is that of the
\* enhanced script)
BasicMoveProcessed ==
    /\ pc = "basic_moveok"
    /\ Move("processed", "true")
    /\ pc' = "basic_ret"
    /\ UNCHANGED <<startup, sample, files, sords, workflows, stats, cycles, active, timer, scan, pdfFiles,
                   idx, attempts, parentId, sordId, wfAttempts>>

\* part_000 lines 61-64: an error of processSinglePDF is caught by the loop and
\* the file goes to the error directory
BasicCatch ==
    /\ pc = "basic_catch"
    /\ Move("error", "threw")
    /\ pc' = "basic_ret"
    /\ UNCHANGED <<startup, sample, files, sords, workflows, stats, cycles, active, timer, scan, pdfFiles,
                   idx, attempts, parentId, sordId, wfAttempts>>

\* part_000 line 58: the loop goes on to the next file
BasicNextFile ==
    /\ pc = "basic_ret"
    /\ idx' = idx + 1
    /\ scan' = [scan EXCEPT !.outcomes = Append(@, call.result)]
    /\ call' = NoCall
    /\ parentId' = 0
    /\ sordId' = 0
    /\ wfAttempts' = 0
    /\ pc' = "basic_loop"
    /\ UNCHANGED <<startup, sample, files, dirs, sords, workflows, stats, cycles, active, timer, budget,
                   pdfFiles, attempts>>

NextBasic ==
    \/ Arrive
    \/ TimerFires
    \/ BasicMain
    \/ BasicSetInterval
    \/ BasicTick
    \/ BasicScan
    \/ BasicStartFile
    \/ BasicCycleEnd
    \/ BasicImport
    \/ BasicWorkflow
    \/ BasicMoveProcessed
    \/ BasicCatch
    \/ BasicNextFile

\* the runs of the basic script
SpecBasic == InitBasic /\ [][NextBasic]_vars

(* ------------------------------------------------------------------ *)
(* The checks of validatePDFFile applied to one file                   *)
(* ------------------------------------------------------------------ *)
\* the sizes of the files the checks are applied to
SampleSizes == {0, 1, 10240, MAX_FILE_SIZE - 1, MAX_FILE_SIZE, MAX_FILE_SIZE + 1}

\* their names
SampleNames ==
    { InvoiceName,
      <<"t","e","m","p","_","a",".","p","d","f">>,
      <<"T","e","m","p","_","a",".","p","d","f">>,
      <<".","a",".","p","d","f">>,
      <<"a","_","o","l","d",".","p","d","f">>,
      <<"a",".","t","x","t">>,
      <<"a","*","b",".","p","d","f">> }

\* the lists of exclusion patterns a configuration may carry
SamplePatterns ==
    { <<>>,
      EXCLUDE_PATTERNS,
      << <<"T","e","m","p","_","*">> >>,
      << <<"*","_","o","l","d",".","p","d","f">> >>,
      << <<"o","l","d">> >>,
      << <<".","*">>, <<"*","b">> >> }

\* lines 338-385: the first check of validatePDFFile that rejects the file
\* ("none" when the file reaches the header check)
firstRejection(f, patterns) ==
    IF ~readableCheck(f, TRUE) THEN "readable"
    ELSE IF ~sizeCheck(f) THEN "size"
    ELSE IF ~extensionCheck(f) THEN "extension"
    ELSE IF excludedBy(toLowerCase(f.name), patterns) THEN "excluded"
    ELSE "none"

InitValidation ==
    /\ InitWith(0, 0, 0, 0)
    /\ startup = NoStartup
    /\ sample \in {[NoSample EXCEPT !.file = MkFile(n, TRUE, r, z, PdfHead), !.patterns = p] :
                      n \in SampleNames, r \in BOOLEAN, z \in SampleSizes,
                      p \in SamplePatterns}

\* the size check, the exclusion check and validatePDFFile up to the
\* exclusion check are applied to the file
ValidateSample ==
    /\ ~sample.checked
    /\ sample' = [sample EXCEPT
                     !.checked = TRUE,
                     !.sizeOk = sizeCheck(sample.file),
                     !.excluded = excludedBy(toLowerCase(sample.file.name), sample.patterns),
                     !.rejectedBy = firstRejection(sample.file, sample.patterns)]
    /\ UNCHANGED <<startup, files, dirs, sords, workflows, stats, cycles, active, timer,
                   budget, pc, scan, pdfFiles, idx, attempts, parentId, sordId, wfAttempts,
                   call>>

NextValidation == ValidateSample

\* the checks of validatePDFFile applied to a file and a list of patterns
SpecValidation == InitValidation /\ [][NextValidation]_vars

(* ------------------------------------------------------------------ *)
(* the start of the script: CONFIG, the logger, the banner of main     *)
(* ------------------------------------------------------------------ *)
\* lines 22-35: the objects of config.json that the script reads fields of;
\* "logging" is a field of "settings"
Sections == {"settings", "logging", "fileFilters", "eloConnection"}

\* the documents config.json may hold.  A number field that is missing reads
\* as 0 here, a missing list as the empty list and a missing string as "":
\* the operator || of lines 29-34 treats each pair alike
ConfigDocuments ==
    {[sections |-> S, intervalSeconds |-> i, maxFileSizeMB |-> z, excludePatterns |-> p,
      retryAttempts |-> r, timeout |-> t, level |-> l] :
        S \in {T \in SUBSET Sections : "logging" \in T => "settings" \in T},
        i \in {30, 60}, z \in {0, 10},
        p \in {<<>>, << <<"d","r","a","f","t","_","*">> >>},
        r \in {0, 5}, t \in {0, 60000}, l \in {"", "DEBUG"}}

\* lines 17-19: config.json does not exist, cannot be read, is not JSON, or
\* holds a document
ConfigFiles ==
    {[state |-> st, data |-> NoDocument] : st \in {"absent", "unreadable", "malformed"}}
        \cup {[state |-> "document", data |-> d] : d \in ConfigDocuments}

\* the operator || with a number on the left
orNumber(value, default) == IF value = 0 THEN default ELSE value

\* the operator || with a string on the left
orString(value, default) == IF value = "" THEN default ELSE value

\* lines 17-38: the statements of the try block complete; reading a field of
\* an object the document lacks throws a TypeError
loads(configFile) ==
    /\ configFile.state = "document"
    /\ Sections \subseteq configFile.data.sections

\* lines 21-35: CONFIG as built from the document
configOf(configData) ==
    [paths |-> "configured",
     INTERVAL |-> configData.intervalSeconds * 1000,
     MAX_FILE_SIZE |-> orNumber(configData.maxFileSizeMB, 50) * 1024 * 1024,
     ALLOWED_EXTENSIONS |-> ALLOWED_EXTENSIONS,
     EXCLUDE_PATTERNS |-> configData.excludePatterns,
     RETRY_ATTEMPTS |-> orNumber(configData.retryAttempts, 3),
     CONNECTION_TIMEOUT |-> orNumber(configData.timeout, 30000),
     LOG_LEVEL |-> orString(configData.level, "INFO")]

\* lines 39-40: what the catch block writes to the log
fallbackLog(log) == log

InitStartup ==
    /\ InitWith(0, 0, 0, 0)
    /\ sample = NoSample
    /\ startup \in {[NoStartup EXCEPT !.step = "load", !.configFile = c] : c \in ConfigFiles}

\* lines 15-57: CONFIG is built from config.json, or from the built-in
\* values when the try block throws
LoadConfig ==
    /\ startup.step = "load"
    /\ startup' =
          IF loads(startup.configFile)
          THEN [startup EXCEPT !.step = "globals",
                               !.CONFIG = configOf(startup.configFile.data)]
          ELSE [startup EXCEPT !.step = "globals",
                               !.CONFIG = DefaultConfig,
                               !.fallback = TRUE,
                               !.log = fallbackLog(@)]
    /\ UNCHANGED <<sample, files, dirs, sords, workflows, stats, cycles, active, timer,
                   budget, pc, scan, pdfFiles, idx, attempts, parentId, sordId, wfAttempts,
                   call>>

\* lines 59-60: the logger and fileUtils are created
CreateGlobals ==
    /\ startup.step = "globals"
    /\ startup' = [startup EXCEPT !.step = "main", !.logger = TRUE]
    /\ UNCHANGED <<sample, files, dirs, sords, workflows, stats, cycles, active, timer,
                   budget, pc, scan, pdfFiles, idx, attempts, parentId, sordId, wfAttempts,
                   call>>

\* a line of the log
Line(level, message, value) == [level |-> level, message |-> message, value |-> value]

\* lines 633-641: what main logs about the configuration before it probes
\* the connection; the four lines about paths and names log a string
banner(config) ==
    << Line("info", "=== PDFImportService Enhanced Starting ===", 0),
       Line("info", "Configuration loaded:", 0),
       Line("info", "- Source Directory: ", 0),
       Line("info", "- Archive Path: ", 0),
       Line("info", "- Metadata Mask: ", 0),
       Line("info", "- Workflow Template: ", 0),
       Line("info", "- Interval: ", config.INTERVAL \div 1000),
       Line("info", "- Max File Size: ", config.MAX_FILE_SIZE \div (1024 * 1024)),
       Line("info", "- Retry Attempts: ", config.RETRY_ATTEMPTS),
       Line("info", "============================================", 0) >>

\* lines 632-641: main begins
LogConfiguration ==
    /\ startup.step = "main"
    /\ startup.logger
    /\ startup' = [startup EXCEPT !.step = "started", !.log = @ \o banner(startup.CONFIG)]
    /\ UNCHANGED <<sample, files, dirs, sords, workflows, stats, cycles, active, timer,
                   budget, pc, scan, pdfFiles, idx, attempts, parentId, sordId, wfAttempts,
                   call>>

NextStartup ==
    \/ LoadConfig
    \/ CreateGlobals
    \/ LogConfiguration

\* the start of the script for each config.json it may find
SpecStartup == InitStartup /\ [][NextStartup]_vars

(* ------------------------------------------------------------------ *)
(* Properties                                                          *)
(* ------------------------------------------------------------------ *)
\* how many entries of directory dir are the file id
Copies(dir, id) == Cardinality({x \in dir : IdOf(x) = id})

\* the archive holds record n for file id, with its content checked in
Finalized(n, id) ==
    \E r \in sords : r.id = n /\ r.type = "doc" /\ r.file = id /\ r.content

\* processSinglePDFWithRetry has returned (or thrown and been caught) and the
\* loop has not yet counted the outcome
Returned == pc = "ret"

\* C1 as stated: when a call whose import succeeded returns, its file is in the
\* processed directory exactly once, in neither the source nor the error
\* directory, and the archive holds a finalized record for it.
C1_AsStated ==
    (Returned /\ call.result = "true") =>
        /\ Copies(dirs.processed, call.file) = 1
        /\ Copies(dirs.source, call.file) = 0
        /\ Copies(dirs.error, call.file) = 0
        /\ Finalized(call.imported, call.file)

\* C1 amended: when a call whose import succeeded returns, the archive holds a
\* finalized record for its file; the file is in the processed directory
\* exactly once and nowhere else if the rename of the mover succeeded, and is
\* still in the source directory (and nowhere else) if it did not.
C1_Moved ==
    (Returned /\ call.result = "true") =>
        /\ Finalized(call.imported, call.file)
        /\ Copies(dirs.error, call.file) = 0
        /\ IF call.renamed
           THEN Copies(dirs.processed, call.file) = 1 /\ Copies(dirs.source, call.file) = 0
           ELSE Copies(dirs.processed, call.file) = 0 /\ Copies(dirs.source, call.file) = 1

C1_Witness ==
    /\ Returned /\ call.result = "true" /\ call.renamed
    /\ Copies(dirs.processed, call.file) = 1
    /\ Finalized(call.imported, call.file)

\* the document records the current call committed that are still in the archive
Remaining == {r \in sords : r.type = "doc" /\ r.id \in call.committed}

\* C2 as stated: when a call whose RETRY_ATTEMPTS attempts all failed returns,
\* its file is in the error directory exactly once and not in the source
\* directory, and no record committed by its attempts remains in the archive.
C2_AsStated ==
    (Returned /\ call.result = "false") =>
        /\ Copies(dirs.error, call.file) = 1
        /\ Copies(dirs.source, call.file) = 0
        /\ Remaining = {}

\* C2 amended: when a call whose RETRY_ATTEMPTS attempts all failed returns,
\* the records of its attempts that remain in the archive are exactly those
\* whose compensating delete failed, and none of them has content; the file is
\* in the error directory exactly once and nowhere else if the rename of the
\* mover succeeded, and is still in the source directory if it did not.
C2_Failed ==
    (Returned /\ call.result = "false") =>
        /\ {r.id : r \in Remaining} = call.kept
        /\ \A r \in Remaining : ~r.content /\ r.file = call.file
        /\ Copies(dirs.processed, call.file) = 0
        /\ IF call.renamed
           THEN Copies(dirs.error, call.file) = 1 /\ Copies(dirs.source, call.file) = 0
           ELSE Copies(dirs.error, call.file) = 0 /\ Copies(dirs.source, call.file) = 1

\* a call that committed a record, deleted it, failed every attempt and moved its file
C2_Witness ==
    /\ Returned /\ call.result = "false" /\ call.renamed
    /\ call.committed # {} /\ Remaining = {}
    /\ Copies(dirs.error, call.file) = 1

\* C3 as stated: every dropped file is in exactly one of the three
\* directories, a call that has returned handed its file to the mover exactly
\* once, and the file a call works on has not reached processed or error before.
C3_AsStated ==
    /\ \A id \in Dropped(files) :
          Copies(dirs.source, id) + Copies(dirs.processed, id) + Copies(dirs.error, id) = 1
    /\ Returned => Len(call.moves) = 1
    /\ call.result = "running" =>
          Copies(dirs.processed, call.file) + Copies(dirs.error, call.file) = 0

\* C4 as stated: the name the mover chooses is the name of no file already
\* present in the target directory.
C4_AsStated == call.moves # <<>> => ~call.taken

\* C5: once an import attempt has returned a record id, the call begins no
\* further import attempt and only starts the workflow, moves and returns; a
\* call in which startWorkflowWithRetry threw hands the file to the mover
\* towards processed, exactly once, and returns success.
C5_WorkflowFailureKeepsSuccess ==
    /\ call.imported # 0 =>
          /\ call.afterImport = 0
          /\ pc \in {"workflow", "moveok", "ret"}
    /\ (Returned /\ call.wfThrew) =>
          /\ call.result = "true"
          /\ call.moves = <<"processed">>
          /\ call.imported # 0

C5_Witness ==
    /\ Returned /\ call.wfThrew /\ call.result = "true"
    /\ call.moves = <<"processed">> /\ call.renamed

\* C6: a call never begins more than RETRY_ATTEMPTS import attempts; a call
\* that returns success made at least one attempt, every attempt before its
\* last one failed and none followed the successful one; a call returns
\* failure only after exactly RETRY_ATTEMPTS attempts, all of which failed.
C6_BoundedAttempts ==
    /\ call.attempts = attempts
    /\ call.attempts <= RETRY_ATTEMPTS
    /\ (Returned /\ call.result = "true") =>
          /\ call.attempts >= 1
          /\ call.failures = call.attempts - 1
          /\ call.afterImport = 0
    /\ (Returned /\ call.result = "false") =>
          /\ call.attempts = RETRY_ATTEMPTS
          /\ call.failures = RETRY_ATTEMPTS

\* a call that succeeded at its second attempt
C6_Witness ==
    Returned /\ call.result = "true" /\ call.attempts = 2 /\ call.failures = 1

\* milliseconds in the time unit of the backoff
MillisPerUnit == 1000

RECURSIVE Sum(_)
Sum(s) == IF s = <<>> THEN 0 ELSE Head(s) + Sum(Tail(s))

\* 2^1 + ... + 2^n
RECURSIVE SumOfPowers(_)
SumOfPowers(n) == IF n = 0 THEN 0 ELSE SumOfPowers(n - 1) + 2 ^ n

\* C7: the k-th backoff sleep of a call lasts 2^k time units; a call sleeps
\* after a failed attempt only when attempts remain, so never after the final
\* attempt; a call that failed all RETRY_ATTEMPTS attempts slept
\* RETRY_ATTEMPTS - 1 times, 2^1 + ... + 2^(RETRY_ATTEMPTS - 1) units in total.
C7_Backoff ==
    /\ \A k \in 1..Len(call.sleeps) : call.sleeps[k] = (2 ^ k) * MillisPerUnit
    /\ Len(call.sleeps) <= RETRY_ATTEMPTS - 1
    /\ Len(call.sleeps) <= call.failures
    /\ (pc = "retry" /\ call.failures < RETRY_ATTEMPTS) => Len(call.sleeps) = call.failures
    /\ (Returned /\ call.result = "false") =>
          /\ Len(call.sleeps) = RETRY_ATTEMPTS - 1
          /\ Sum(call.sleeps) = SumOfPowers(RETRY_ATTEMPTS - 1) * MillisPerUnit

C7_Witness ==
    /\ Returned /\ call.result = "false"
    /\ call.sleeps = <<2 * MillisPerUnit, 4 * MillisPerUnit>>

\* C8: an attempt that fails after it checked in the metadata of a record has
\* tried the compensating delete before it fails, and fails with the upload
\* error; if the delete succeeded the record is gone; if the delete failed the
\* attempt fails all the same; each failed attempt is counted once.
C8_Compensation ==
    /\ (pc = "failed" /\ call.checkedIn) =>
          /\ call.deleteTried \in {"ok", "failed"}
          /\ call.error = "File upload failed"
          /\ call.deleteTried = "ok" => ~ \E r \in sords : r.id = sordId
          /\ call.deleteTried = "failed" =>
                \E r \in sords : r.id = sordId /\ r.file = call.file /\ ~r.content
    /\ call.deleteTried # "no" => pc \in {"failed", "retry", "unhandled", "ret"}
    /\ pc = "failed" => call.failures = call.attempts - 1
    /\ pc \in {"retry", "unhandled"} => call.failures = call.attempts

\* an attempt whose upload and compensating delete both failed
C8_Witness ==
    /\ pc = "failed" /\ call.checkedIn /\ call.deleteTried = "failed"
    /\ call.error = "File upload failed"

\* a file that fails one of checks 1 to 5, stated on the file itself
FailsChecks1to5(f) ==
    \/ ~f.isFile
    \/ ~f.canRead
    \/ f.size = 0
    \/ f.size > MAX_FILE_SIZE
    \/ ~endsWith(toLowerCase(f.name), <<".","p","d","f">>)
    \/ startsWith(toLowerCase(f.name), <<"t","e","m","p","_">>)
    \/ startsWith(toLowerCase(f.name), <<".">>)

\* the files of the catalog that fail one of checks 1 to 5
RejectedFiles == {f \in FileCatalog : FailsChecks1to5(f)}

\* C9: a file that fails one of checks 1 to 5 stays in the source directory,
\* is in neither the processed nor the error directory, is never the file of
\* a call and has no record in the archive; a call that handed its file to the
\* mover towards the error directory made at least one import attempt.
C9_RejectedUntouched ==
    /\ \A id \in Dropped(files) :
          id.file \in RejectedFiles =>
              /\ Copies(dirs.source, id) = 1
              /\ Copies(dirs.processed, id) = 0
              /\ Copies(dirs.error, id) = 0
              /\ call.file # id
              /\ ~ \E r \in sords : r.file = id
    /\ \A x \in dirs.error : x.file \notin RejectedFiles
    /\ (call.moves # <<>> /\ call.moves[1] = "error") => call.attempts >= 1

\* after two cycles a rejected file is still in the source directory while
\* another file was moved to the error directory
C9_Witness ==
    /\ pc = "idle" /\ cycles >= 2
    /\ \E x \in dirs.source : x.file \in RejectedFiles
    /\ dirs.error # {}

\* a file that passes checks 1 to 5 and does not begin with %PDF
BadHeader(f) ==
    /\ ~FailsChecks1to5(f)
    /\ Len(f.head) >= 4
    /\ SubSeq(f.head, 1, 4) # <<"%","P","D","F">>

\* the files of the catalog that pass checks 1 to 5 and do not begin with %PDF
BadHeaderFiles == {f \in FileCatalog : BadHeader(f)}

\* the names the scan returned
WorkItems == {pdfFiles[k] : k \in 1..Len(pdfFiles)}

\* C10 as stated: every listed file that passes checks 1 to 5 and does not
\* begin with %PDF is among the work items of the scan.
C10_AsStated ==
    \A x \in scan.listed : x.file \in BadHeaderFiles => x.name \in WorkItems

\* C10 amended: a listed file that passes checks 1 to 5 and does not begin
\* with %PDF is a work item of the scan exactly when its header could not be
\* read; when all RETRY_ATTEMPTS attempts of such a file fail, the file is
\* handed to the mover towards the error directory and is there once the
\* rename succeeded.
C10_HeaderCheck ==
    /\ \A x \in scan.listed :
          x.file \in BadHeaderFiles => (x.name \in WorkItems <=> x.name \in scan.unread)
    /\ (call.result # "none" /\ call.file.file \in BadHeaderFiles) => call.name \in scan.unread
    /\ (Returned /\ call.result = "false" /\ call.file.file \in BadHeaderFiles) =>
          /\ call.moves = <<"error">>
          /\ call.renamed => Copies(dirs.error, call.file) = 1

\* a file that does not begin with %PDF, scanned while its header could not
\* be read, failed all its attempts and is in the error directory
C10_Witness ==
    /\ Returned /\ call.result = "false" /\ call.file.file \in BadHeaderFiles
    /\ call.attempts = RETRY_ATTEMPTS
    /\ call.renamed /\ Copies(dirs.error, call.file) = 1

\* processPDFFiles is running
InCycle(p) == p \notin {"main", "stopped", "schedule", "idle"}

\* C11: inside the loop every file before the current one has a counted
\* outcome, and processPDFFiles returns only from its early returns before the
\* loop or from the end of the loop, when every file of the scan result has an
\* outcome, whatever the outcomes of the earlier files were.
C11_FateIsolated ==
    /\ [](pc = "loop" =>
            /\ Len(scan.outcomes) = idx - 1
            /\ idx <= Len(pdfFiles) + 1
            /\ \A k \in 1..Len(scan.outcomes) : scan.outcomes[k] \in {"true", "false", "threw"})
    /\ [][(InCycle(pc) /\ ~InCycle(pc')) =>
            \/ pc = "cycle"
            \/ pc = "loop" /\ Len(scan.outcomes) = Len(pdfFiles)]_vars

\* a cycle over two files ends after the first exhausted its attempts and the
\* second was imported
C11_Witness ==
    /\ pc = "loop" /\ idx > Len(pdfFiles)
    /\ scan.outcomes = <<"false", "true">>

\* C12: at most one call of processPDFFiles is active, and a call begins only
\* when none is active and the script is not inside a cycle.
C12_NoOverlap ==
    /\ [](active <= 1 /\ (active = 1 <=> InCycle(pc)))
    /\ [][cycles' # cycles => (active = 0 /\ ~InCycle(pc) /\ active' = 1)]_vars

\* the interval expired while a cycle that has slept a backoff is running, and
\* the run has cycles left
C12_Witness ==
    /\ timer = "pending" /\ InCycle(pc) /\ active = 1
    /\ call.sleeps # <<>>
    /\ budget.cycles > 0

\* C13 as stated: once main has run, a scan cycle has been run, and once the
\* script is idle the interval is set up.
C13_AsStated ==
    /\ pc # "main" => cycles >= 1
    /\ pc \in {"idle", "stopped"} => timer # "none"

\* C14: the service is stopped only before its first cycle; when a cycle has
\* returned the interval is set up or about to be; an interval that expired
\* starts a new cycle as soon as the script is idle (within the cycles of the run).
C14_CycleFailuresContained ==
    /\ pc = "stopped" => cycles = 0
    /\ pc = "idle" => timer # "none"
    /\ (pc = "idle" /\ timer = "pending" /\ budget.cycles > 0) => ENABLED Tick

\* a second cycle begins after a cycle that counted a failure
C14_Witness ==
    /\ pc = "cycle" /\ cycles = 2
    /\ stats.totalErrors >= 1

\* the totals at which a summary was logged
SummaryTotals == {x.total : x \in stats.summaries}

\* C15 as stated: when no cycle is running, a summary has been logged for
\* every multiple of 10 that totalProcessed + totalErrors has reached.
C15_AsStated ==
    ~InCycle(pc) =>
        \A n \in 1..(stats.totalProcessed + stats.totalErrors) :
            n % 10 = 0 => n \in SummaryTotals

\* C16: every summary was computed from a total greater than 0, and its
\* success rate is a number between 0 and 100.
C16_NoDivisionByZero ==
    \A x \in stats.summaries :
        /\ x.total > 0
        /\ x.rate \in 0..100

\* a summary was logged at the tenth outcome
C16_Witness ==
    /\ \E x \in stats.summaries : x.total = 10
    /\ stats.totalProcessed + stats.totalErrors = 10

\* startWorkflowWithRetry has returned or thrown
WorkflowDone == call.imported # 0 /\ pc \in {"moveok", "ret"}

\* C17 as stated: at most 2 attempts; a return follows the first attempt that
\* succeeds; the only sleep lasts 2 units and lies between the first and the
\* second attempt; the error reaches the caller exactly when both attempts failed.
C17_AsStated ==
    /\ wfAttempts <= 2
    /\ \A k \in 1..Len(call.wfSleeps) : call.wfSleeps[k] = 2 * MillisPerUnit
    /\ Len(call.wfSleeps) <= 1
    /\ WorkflowDone =>
          /\ ~call.wfThrew => call.wfFailures = wfAttempts - 1
          /\ call.wfThrew <=> call.wfFailures = 2

\* C17 amended: at most 2 attempts; a return follows the first attempt that
\* succeeds; the only sleep lasts 2 units and follows the first failed attempt,
\* never the second; the error reaches the caller when both attempts failed,
\* and also when the sleep after the first failed attempt is interrupted.
C17_WorkflowRetry ==
    /\ wfAttempts <= 2
    /\ \A k \in 1..Len(call.wfSleeps) : call.wfSleeps[k] = 2 * MillisPerUnit
    /\ Len(call.wfSleeps) <= 1
    /\ Len(call.wfSleeps) + (IF call.wfInterrupted THEN 1 ELSE 0) =
          (IF call.wfFailures >= 1 THEN 1 ELSE 0)
    /\ WorkflowDone =>
          /\ wfAttempts >= 1
          /\ ~call.wfThrew => call.wfFailures = wfAttempts - 1
          /\ call.wfThrew => call.wfFailures = wfAttempts
          /\ call.wfThrew <=> (call.wfFailures = 2 \/ call.wfInterrupted)
          /\ call.wfInterrupted => call.wfFailures = 1

\* both attempts failed with one sleep between them, and the error was thrown
C17_Witness ==
    /\ WorkflowDone /\ call.wfThrew /\ wfAttempts = 2 /\ call.wfFailures = 2
    /\ call.wfSleeps = <<2 * MillisPerUnit>>

\* C18 as stated: the validation of an import attempt gives the outcome the
\* validation of the scan gave for the same file, that is, it accepts the file.
C18_AsStated == call.error # "File validation failed"

\* C18 amended: two validations of the same file give the same outcome when
\* their header reads have the same outcome; the validation of an import
\* attempt rejects a work item of the scan only when the file does not begin
\* with %PDF, its header was read now and could not be read during the scan.
\* For a file that fails checks 1 to 5 or begins with %PDF the outcome of the
\* scan does not depend on the header read.
C18_Validation ==
    /\ call.error = "File validation failed" =>
          /\ call.file.file \in BadHeaderFiles
          /\ call.name \in scan.unread
          /\ pc = "failed" => call.headerRead = "ok"
    /\ (call.headerRead # "none" /\ (call.headerRead = "throws" <=> call.name \in scan.unread))
          => call.error # "File validation failed"
    /\ \A x \in scan.listed :
          x.file \notin BadHeaderFiles =>
              (x.name \in WorkItems <=> (x.file.isFile /\ x.file \notin RejectedFiles))

\* a file that does not begin with %PDF was accepted by the scan and again by
\* an import attempt, its header unreadable both times
C18_Witness ==
    /\ pc = "folder" /\ call.file.file \in BadHeaderFiles
    /\ call.headerRead = "throws" /\ call.name \in scan.unread

\* C19 as stated: in the basic script a call whose import succeeded and whose
\* workflow start failed hands its file to the mover towards the processed
\* directory.
C19_AsStated ==
    (pc = "basic_ret" /\ call.imported # 0 /\ call.wfThrew) =>
        call.moves = <<"processed">>

\* the containers of the archive
Containers == {r \in sords : r.type = "folder"}

\* C20 as stated: the archive holds at most one container for the archive
\* path, and the lookup by CONFIG.ARCHIVE_PATH finds the container once it exists.
C20_AsStated ==
    /\ Cardinality(Containers) <= 1
    /\ Containers # {} => findByName(sords, ARCHIVE_PATH) = Containers

\* the calls of an import attempt that returns an id, from checkinSord on
CommitCalls == <<"checkinSord", "checkinDocBegin", "read", "upload", "checkinDocEnd">>

\* importFileToELOWithValidation is running
InImport(p) == p \in {"validate", "folder", "record", "upload", "compensate"}

\* C21: an import attempt returns an id only after checkinSord, the upload
\* that reported success and checkinDocEnd completed, in this order, and the
\* id is that of the record it checked in, now with content; checkinDocEnd is
\* called only right after an upload that reported success; the attempt ends
\* either with the id or with an error and no id.
C21_CommitOrder ==
    /\ [](call.imported # 0 =>
            /\ call.trace = CommitCalls
            /\ call.imported = sordId
            /\ call.imported \in call.committed
            /\ Finalized(call.imported, call.file))
    /\ [](\A k \in 1..Len(call.trace) :
            call.trace[k] \in {"checkinDocEnd", "checkinDocEnd:throws"} =>
                k > 1 /\ call.trace[k - 1] = "upload")
    /\ [](pc = "failed" => call.imported = 0 /\ call.error # "")
    /\ [][(InImport(pc) /\ ~InImport(pc')) =>
            \/ pc' = "workflow" /\ call'.imported # 0 /\ call'.error = ""
            \/ pc' = "failed" /\ call'.imported = 0 /\ call'.error # ""]_vars

\* an import attempt returned the id of the record it committed
C21_Witness ==
    /\ pc = "workflow" /\ call.imported # 0
    /\ call.trace = CommitCalls
    /\ Finalized(call.imported, call.file)

\* the workflow instances bound to record n
InstancesOf(n) == {w \in workflows : w.sord = n}

\* C22: startWorkflowWithRetry runs only for the record the import attempt
\* just returned, whose content check-in is finalized and for which no
\* compensating delete was tried; a workflow instance is only ever created for
\* that record; the record of a workflow instance stays in the archive with
\* its content, and a record that is deleted has no workflow instance; no
\* record has more than one started workflow instance.
C22_WorkflowTrigger ==
    /\ [](pc = "workflow" =>
            /\ call.imported = sordId
            /\ Finalized(sordId, call.file)
            /\ call.deleteTried = "no"
            /\ sordId \notin call.kept)
    /\ [](\A w \in workflows :
            /\ \E r \in sords : r.id = w.sord /\ r.type = "doc" /\ r.content
            /\ \A v \in InstancesOf(w.sord) : (v.started /\ w.started) => v = w)
    /\ [][\A w \in workflows' \ workflows :
            pc = "workflow" /\ w.sord = call.imported /\ Finalized(w.sord, call.file)]_vars
    /\ [][\A r \in sords :
            (~ \E q \in sords' : q.id = r.id) => (~r.content /\ InstancesOf(r.id) = {})]_vars

\* the first attempt created an instance and failed to start it, the second
\* attempt started another one
C22_Witness ==
    /\ pc = "moveok" /\ wfAttempts = 2
    /\ \E v, w \in InstancesOf(call.imported) : ~v.started /\ w.started

\* C23 as stated: no record has more than one workflow instance.
C23_AsStated == \A w \in workflows : InstancesOf(w.sord) = {w}

\* what the caller at position p reports after its move
ReportAt(p) == IF p = "moveok" THEN "true" ELSE IF p = "retry" THEN "false" ELSE "threw"

\* C24: a move whose rename fails changes no directory, returns to the caller
\* without an error and leaves the outcome the caller reports what it is for
\* a move that succeeds; the file is then still in the source directory and in
\* no other, and the counter incremented for the file is the one of the
\* reported outcome, whether or not the file was moved.
C24_MoveFailureSwallowed ==
    /\ [][(Len(call'.moves) = Len(call.moves) + 1) =>
            /\ pc' = "ret"
            /\ call'.result = ReportAt(pc)
            /\ ~call'.renamed => dirs' = dirs]_vars
    /\ []((Returned /\ ~call.renamed) =>
            /\ Copies(dirs.source, call.file) = 1
            /\ Copies(dirs.processed, call.file) = 0
            /\ Copies(dirs.error, call.file) = 0)
    /\ [][(pc = "ret" /\ pc' = "loop") =>
            IF call.moves = <<"processed">>
            THEN /\ stats'.totalProcessed = stats.totalProcessed + 1
                 /\ stats'.totalErrors = stats.totalErrors
            ELSE /\ call.moves = <<"error">>
                 /\ stats'.totalErrors = stats.totalErrors + 1
                 /\ stats'.totalProcessed = stats.totalProcessed]_vars

\* the rename towards the processed directory failed and the call reports success
C24_Witness ==
    /\ Returned /\ ~call.renamed /\ call.moves = <<"processed">>
    /\ call.result = "true"
    /\ Copies(dirs.source, call.file) = 1 /\ Copies(dirs.processed, call.file) = 0

\* the records with content the archive holds for file id
RecordsOf(id) == {r \in sords : r.type = "doc" /\ r.file = id /\ r.content}

\* C25: a call that imported its file and whose move failed leaves the file
\* in the source directory with its finalized record in the archive; a scan
\* makes a listed file a work item although the archive holds a finalized
\* record for it (stated for the files that pass all six checks); an
\* import that returns an id has added a record of its own and kept every
\* record the archive held before; a file has at most one finalized record
\* per cycle.
C25_DuplicateImport ==
    /\ []((Returned /\ call.result = "true" /\ ~call.renamed) =>
            /\ Copies(dirs.source, call.file) = 1
            /\ Finalized(call.imported, call.file))
    /\ [](\A x \in scan.listed :
            (RecordsOf(IdOf(x)) # {} /\ x.file.isFile /\ x.file \notin RejectedFiles
                /\ x.file \notin BadHeaderFiles) => x.name \in WorkItems)
    /\ [][(call.imported = 0 /\ call'.imported # 0) =>
            /\ call'.imported \notin {r.id : r \in RecordsOf(call.file)}
            /\ \A r \in sords : r.content => r \in sords'
            /\ RecordsOf(call.file)' = RecordsOf(call.file) \cup
                   {r \in sords' : r.id = call'.imported}]_vars
    /\ [](\A id \in Dropped(files) : Cardinality(RecordsOf(id)) <= cycles)

\* the second cycle imported a file again that the first cycle had imported
\* and failed to move
C25_Witness ==
    /\ cycles = 2 /\ call.imported # 0
    /\ Finalized(call.imported, call.file)
    /\ \E r \in RecordsOf(call.file) : r.id # call.imported
    /\ Copies(dirs.source, call.file) = 1

\* the files that pass all six checks whatever the outcome of the header read
ValidFiles == {f \in FileCatalog : f.isFile /\ f \notin RejectedFiles /\ f \notin BadHeaderFiles}

\* the entries that came into the source directory after the scan of the
\* running cycle
LateArrivals == {x \in dirs.source : x \notin scan.listed}

\* the loop of processPDFFiles is running
InLoop(p) == InCycle(p) /\ p # "cycle"

\* C26: a call works on the file of the current iteration, which is a file
\* the scan listed, and begins when exactly the files before it have an
\* outcome; the index moves on by one, and only when the call has handed the
\* file to the mover and returned; the scan result does not change while the
\* loop runs; a file that arrived after the scan is not the file of a call
\* and stays in the source directory as long as the loop runs; a scan makes
\* every listed file that passes the six checks a work item.
C26_ScanOrder ==
    /\ [](call.result # "none" =>
            /\ idx \in 1..Len(pdfFiles)
            /\ call.name = pdfFiles[idx]
            /\ Len(scan.outcomes) = idx - 1
            /\ call.file \in {IdOf(x) : x \in scan.listed}
            /\ \A x \in LateArrivals : call.file # IdOf(x))
    /\ [](\A i, j \in 1..Len(pdfFiles) : pdfFiles[i] = pdfFiles[j] => i = j)
    /\ [][(InLoop(pc) /\ InLoop(pc')) =>
            /\ pdfFiles' = pdfFiles
            /\ scan'.listed = scan.listed
            /\ \A x \in LateArrivals : x \in dirs'.source]_vars
    /\ [][(InLoop(pc) /\ idx' # idx) =>
            \/ /\ pc = "ret" /\ idx' = idx + 1
               /\ Len(call.moves) = 1 /\ call.result \in {"true", "false", "threw"}
            \/ pc = "loop" /\ idx > Len(pdfFiles) /\ ~InCycle(pc')]_vars
    /\ [](InLoop(pc) =>
            \A x \in scan.listed : x.file \in ValidFiles => x.name \in WorkItems)

\* the loop is over, a file had its outcome, and a file that passes the six
\* checks and arrived after the scan is in the source directory, without a record
C26_Witness ==
    /\ pc = "loop" /\ idx > Len(pdfFiles) /\ scan.outcomes # <<>>
    /\ \E x \in LateArrivals : x.file \in ValidFiles /\ RecordsOf(IdOf(x)) = {}

\* how many elements of sequence s are in set S
RECURSIVE CountIn(_, _)
CountIn(s, S) ==
    IF s = <<>> THEN 0 ELSE (IF Head(s) \in S THEN 1 ELSE 0) + CountIn(Tail(s), S)

\* C27: no step decreases totalProcessed or totalErrors; a step changes them
\* only when the loop counts the outcome of a call, and then adds one to
\* totalProcessed if the call returned success and one to totalErrors
\* otherwise; the scan changes neither; while the loop runs each counter is
\* its value at the beginning of the loop plus the number of outcomes of its
\* kind, so their sum has grown by the number of completed outcomes.
C27_Counters ==
    /\ [][/\ stats'.totalProcessed >= stats.totalProcessed
          /\ stats'.totalErrors >= stats.totalErrors]_vars
    /\ [][(stats'.totalProcessed # stats.totalProcessed
             \/ stats'.totalErrors # stats.totalErrors) =>
            /\ pc = "ret" /\ pc' = "loop"
            /\ scan'.outcomes = Append(scan.outcomes, call.result)
            /\ IF call.result = "true"
               THEN /\ stats'.totalProcessed = stats.totalProcessed + 1
                    /\ stats'.totalErrors = stats.totalErrors
               ELSE /\ stats'.totalProcessed = stats.totalProcessed
                    /\ stats'.totalErrors = stats.totalErrors + 1]_vars
    /\ [][(pc = "ret" /\ pc' # "ret") =>
            stats'.totalProcessed + stats'.totalErrors =
                stats.totalProcessed + stats.totalErrors + 1]_vars
    /\ [](InLoop(pc) =>
            /\ stats.totalProcessed = scan.processed + CountIn(scan.outcomes, {"true"})
            /\ stats.totalErrors = scan.errors + CountIn(scan.outcomes, {"false", "threw"})
            /\ stats.totalProcessed + stats.totalErrors =
                  scan.processed + scan.errors + Len(scan.outcomes))

\* a cycle listed a file that fails a check and a file it worked on: one
\* outcome was counted in each counter over two cycles
C27_Witness ==
    /\ pc = "loop" /\ idx > Len(pdfFiles) /\ cycles = 2
    /\ \E x \in scan.listed : x.file \in RejectedFiles
    /\ Len(scan.outcomes) = 1
    /\ stats.totalProcessed = 1 /\ stats.totalErrors = 1

\* C28: an attempt whose mask lookup gave no id fails in CreateRecord only
\* when createSord or checkinSord threw; otherwise it checks the record in
\* without a mask and goes on to the upload; the record of an attempt carries
\* the mask exactly when the lookup found it; an attempt without a mask can
\* return the id of its record.
C28_MaskOptional ==
    /\ [][(pc = "record" /\ pc' = "failed") =>
            \/ call'.maskLookup = "none"
            \/ call'.trace = <<"checkinSord:throws">>]_vars
    /\ [][(pc = "record" /\ pc' # "record") => pc' \in {"upload", "failed"}]_vars
    /\ [](pc \in {"upload", "compensate"} =>
            /\ call.maskLookup \in {"found", "noId"}
            /\ \E r \in sords :
                  /\ r.id = sordId /\ r.file = call.file
                  /\ r.mask = IF call.maskLookup = "found" THEN 1 ELSE 0)
    /\ [](call.imported # 0 =>
            \E r \in sords :
                /\ r.id = call.imported /\ r.content
                /\ r.mask = IF call.maskLookup = "found" THEN 1 ELSE 0)

\* a call returned success for a record that was checked in without a mask
C28_Witness ==
    /\ Returned /\ call.result = "true" /\ call.maskLookup = "noId"
    /\ \E r \in sords : r.id = call.imported /\ r.content /\ r.mask = 0

\* C29: the size check rejects a file exactly when its size is 0 or greater
\* than MAX_FILE_SIZE, so it accepts the size 1 and the size MAX_FILE_SIZE;
\* validatePDFFile rejects a file for its size exactly when the file is
\* readable and has such a size.
C29_SizeCheck ==
    sample.checked =>
        /\ sample.sizeOk <=> ~(sample.file.size = 0 \/ sample.file.size > MAX_FILE_SIZE)
        /\ sample.file.size \in {1, MAX_FILE_SIZE} => sample.sizeOk
        /\ sample.file.size \in {0, MAX_FILE_SIZE + 1} => ~sample.sizeOk
        /\ sample.rejectedBy = "size" <=>
              (sample.file.canRead
                  /\ (sample.file.size = 0 \/ sample.file.size > MAX_FILE_SIZE))

\* a readable file of exactly the maximal size passed the size check
C29_Witness ==
    /\ sample.checked /\ sample.file.canRead
    /\ sample.file.size = MAX_FILE_SIZE
    /\ sample.sizeOk /\ sample.rejectedBy # "size"

\* pattern p matches name in one of the three forms of the claim
MatchesForm(name, p) ==
    \/ p # <<>> /\ Head(p) = "*" /\ endsWith(name, Tail(p))
    \/ p # <<>> /\ p[Len(p)] = "*" /\ startsWith(name, SubSeq(p, 1, Len(p) - 1))
    \/ (\A k \in 1..Len(p) : p[k] # "*") /\ contains(name, p)

\* C30 as stated: the exclusion check rejects a file exactly when some
\* pattern of the list matches its name: the pattern is *X and the name ends
\* with X, or it is X* and the name starts with X, or it has no wildcard and
\* occurs in the name.
C30_AsStated ==
    sample.checked =>
        (sample.excluded <=>
            \E j \in 1..Len(sample.patterns) :
                MatchesForm(sample.file.name, sample.patterns[j]))

\* C31: a cycle whose connection probe failed returns at once: the step that
\* finds the failure ends the cycle, sets lastRun and changes no directory,
\* no record, no workflow instance, no counter, no summary, no attempt and no
\* scan result; after it the script is outside the cycle with nothing scanned.
C31_ProbeFailure ==
    /\ [][(pc = "cycle" /\ scan'.connection = "failed") =>
            /\ ~InCycle(pc')
            /\ active' = active - 1
            /\ stats' = [stats EXCEPT !.lastRun = cycles]
            /\ dirs' = dirs /\ sords' = sords /\ workflows' = workflows
            /\ attempts' = attempts /\ wfAttempts' = wfAttempts /\ call' = call
            /\ pdfFiles' = pdfFiles /\ idx' = idx
            /\ scan'.listed = {} /\ scan'.outcomes = <<>>]_vars
    /\ [](scan.connection = "failed" =>
            /\ pc \in {"schedule", "idle"}
            /\ stats.lastRun = cycles
            /\ pdfFiles = <<>> /\ call = NoCall)
    /\ [](InLoop(pc) => scan.connection = "ok")

\* the probe of the second cycle failed while a file that passes the six
\* checks was waiting in the source directory
C31_Witness ==
    /\ pc = "idle" /\ scan.connection = "failed" /\ cycles = 2
    /\ stats.lastRun = 2
    /\ \E x \in dirs.source : x.file \in ValidFiles /\ RecordsOf(IdOf(x)) = {}

\* C32: every cycle that begins ends, whatever fails; a cycle begins at most
\* RETRY_ATTEMPTS import attempts for each file of its list, and no import is
\* followed by more than maxAttempts attempts to start its workflow.
C32_Terminates ==
    /\ [](InCycle(pc) => <>(~InCycle(pc)))
    /\ [](scan.transactions <= Len(pdfFiles) * RETRY_ATTEMPTS)
    /\ [](InLoop(pc) /\ idx <= Len(pdfFiles) =>
             scan.transactions <= (idx - 1) * RETRY_ATTEMPTS + attempts)
    /\ [](wfAttempts <= maxAttempts)
    /\ [](wfAttempts > 0 => call.imported # 0)
    /\ [][wfAttempts' > wfAttempts =>
            pc = "workflow" /\ wfAttempts' = wfAttempts + 1]_vars

\* a cycle is about to end after RETRY_ATTEMPTS import attempts for the one
\* file of its list
C32_Witness ==
    /\ pc = "loop" /\ Len(pdfFiles) = 1 /\ idx = 2
    /\ scan.transactions = RETRY_ATTEMPTS

\* C33: when the script has started with the built-in configuration because
\* config.json was absent or unreadable, its log holds a warning.
C33_AsStated ==
    startup.step = "started" /\ startup.fallback =>
        \E i \in 1..Len(startup.log) : startup.log[i].level = "warn"

====
